---- MODULE Spec2Model ----
(***************************************************************************)
(* Model of the operational scripts of the Entities API repository:        *)
(*   start.py                    DockerManager                             *)
(*   start_orchestration.py      DockerOrchestrationManager                *)
(*   scripts/bootstrap_admin.py  admin user / API key bootstrap            *)
(* Text values are sequences of one-character strings, so that split,      *)
(* replace, strip, lower and url-quoting are computed as Python computes   *)
(* them.                                                                   *)
(***************************************************************************)
EXTENDS Integers, Sequences, FiniteSets, TLC

\* ------------------------------------------------------------------ text

\* s[i..] (Python s[i-1:])
From(s, i) == SubSeq(s, i, Len(s))

\* str.startswith
StartsWith(s, p) == Len(p) <= Len(s) /\ SubSeq(s, 1, Len(p)) = p

\* str.endswith
EndsWith(s, p) == Len(p) <= Len(s) /\ SubSeq(s, Len(s) - Len(p) + 1, Len(s)) = p

\* c in s
HasChar(s, c) == \E i \in 1..Len(s) : s[i] = c

\* str.split(c) for a one-character separator
RECURSIVE Split(_, _)
Split(s, c) ==
    LET at == IF HasChar(s, c) THEN CHOOSE i \in 1..Len(s) : s[i] = c /\ \A j \in 1..(i-1) : s[j] # c ELSE 0
    IN IF at = 0 THEN <<s>> ELSE <<SubSeq(s, 1, at - 1)>> \o Split(From(s, at + 1), c)

\* str.replace(old, new): every non-overlapping occurrence, left to right
RECURSIVE ReplaceNonEmpty(_, _, _)
ReplaceNonEmpty(s, old, new) == IF Len(s) < Len(old) THEN s ELSE IF StartsWith(s, old) THEN new \o ReplaceNonEmpty(From(s, Len(old) + 1), old, new) ELSE <<Head(s)>> \o ReplaceNonEmpty(Tail(s), old, new)

RECURSIVE Interleave(_, _)
Interleave(s, new) == IF s = <<>> THEN new ELSE new \o <<Head(s)>> \o Interleave(Tail(s), new)

Replace(s, old, new) == IF old = <<>> THEN Interleave(s, new) ELSE ReplaceNonEmpty(s, old, new)

\* the characters str.strip() removes (those the model's alphabet holds)
Whitespace == {" ", "\t", "\n"}

RECURSIVE LStrip(_)
LStrip(s) == IF s # <<>> /\ Head(s) \in Whitespace THEN LStrip(Tail(s)) ELSE s

RECURSIVE RStrip(_)
RStrip(s) == IF s # <<>> /\ s[Len(s)] \in Whitespace THEN RStrip(SubSeq(s, 1, Len(s) - 1)) ELSE s

Strip(s) == RStrip(LStrip(s))

\* str.lower() on ASCII letters
Lower(s) ==
    LET LowerOf == "A" :> "a" @@ "B" :> "b" @@ "C" :> "c" @@ "D" :> "d" @@ "E" :> "e" @@ "F" :> "f" @@ "G" :> "g" @@ "H" :> "h" @@ "I" :> "i" @@ "J" :> "j" @@ "K" :> "k" @@ "L" :> "l" @@ "M" :> "m" @@ "N" :> "n" @@ "O" :> "o" @@ "P" :> "p" @@ "Q" :> "q" @@ "R" :> "r" @@ "S" :> "s" @@ "T" :> "t" @@ "U" :> "u" @@ "V" :> "v" @@ "W" :> "w" @@ "X" :> "x" @@ "Y" :> "y" @@ "Z" :> "z"
    IN [i \in 1..Len(s) |-> IF s[i] \in DOMAIN LowerOf THEN LowerOf[s[i]] ELSE s[i]]

\* urllib.parse.quote_plus: the always-safe characters, space as +, the rest as %XX
PercentCode == "!" :> <<"%","2","1">> @@ "\"" :> <<"%","2","2">> @@ "#" :> <<"%","2","3">> @@ "$" :> <<"%","2","4">> @@ "%" :> <<"%","2","5">> @@ "&" :> <<"%","2","6">> @@ "'" :> <<"%","2","7">> @@ "(" :> <<"%","2","8">> @@ ")" :> <<"%","2","9">> @@ "*" :> <<"%","2","A">> @@ "+" :> <<"%","2","B">> @@ "," :> <<"%","2","C">> @@ "/" :> <<"%","2","F">> @@ ":" :> <<"%","3","A">> @@ ";" :> <<"%","3","B">> @@ "<" :> <<"%","3","C">> @@ "=" :> <<"%","3","D">> @@ ">" :> <<"%","3","E">> @@ "?" :> <<"%","3","F">> @@ "@" :> <<"%","4","0">> @@ "[" :> <<"%","5","B">> @@ "\\" :> <<"%","5","C">> @@ "]" :> <<"%","5","D">> @@ "^" :> <<"%","5","E">> @@ "{" :> <<"%","7","B">> @@ "|" :> <<"%","7","C">> @@ "}" :> <<"%","7","D">>

QuoteChar(c) ==
    LET QuoteSafe == {"a","b","c","d","e","f","g","h","i","j","k","l","m","n","o","p","q","r","s","t","u","v","w","x","y","z","A","B","C","D","E","F","G","H","I","J","K","L","M","N","O","P","Q","R","S","T","U","V","W","X","Y","Z","0","1","2","3","4","5","6","7","8","9","_",".","-","~"}
    IN IF c \in QuoteSafe THEN <<c>> ELSE IF c = " " THEN <<"+">> ELSE PercentCode[c]

RECURSIVE quote_plus(_)
quote_plus(s) == IF s = <<>> THEN <<>> ELSE QuoteChar(Head(s)) \o quote_plus(Tail(s))

\* an optional text: Python None or a str
None == [some |-> FALSE, v |-> <<>>]

Some(s) == [some |-> TRUE, v |-> s]
Truthy(opt) == opt.some /\ opt.v # <<>>

\* -------------------------------------------------------- program constants

DEFAULT_DB_CONTAINER_PORT == <<"3","3","0","6">>

DEFAULT_DB_SERVICE_NAME == <<"d","b">>

ADMIN_API_KEY_PREFIX == <<"a","d","_">>

Scheme == <<"m","y","s","q","l","+","p","y","m","y","s","q","l",":","/","/">>

Localhost == <<"l","o","c","a","l","h","o","s","t">>

\* DockerOrchestrationManager._COMPOSE_ENV_MAPPING: .env key -> compose variable of the db service
Orch_COMPOSE_ENV_MAPPING == "MYSQL_ROOT_PASSWORD" :> <<"M","Y","S","Q","L","_","R","O","O","T","_","P","A","S","S","W","O","R","D">> @@ "MYSQL_DATABASE" :> <<"M","Y","S","Q","L","_","D","A","T","A","B","A","S","E">> @@ "MYSQL_USER" :> <<"M","Y","S","Q","L","_","U","S","E","R">> @@ "MYSQL_PASSWORD" :> <<"M","Y","S","Q","L","_","P","A","S","S","W","O","R","D">>

Orch_GENERATED_SECRETS == {"SIGNED_URL_SECRET", "API_KEY", "SECRET_KEY"}

Orch_GENERATED_TOOL_IDS == {"TOOL_CODE_INTERPRETER", "TOOL_WEB_SEARCH", "TOOL_COMPUTER", "TOOL_VECTOR_STORE_SEARCH"}

Orch_DEFAULT_VALUES ==
    "ASSISTANTS_BASE_URL" :> <<"h","t","t","p",":","/","/","a","p","i",":","9","0","0","0">> @@
    "SANDBOX_SERVER_URL" :> <<"h","t","t","p",":","/","/","s","a","n","d","b","o","x",":","8","0","0","0">> @@
    "DOWNLOAD_BASE_URL" :> <<"h","t","t","p",":","/","/","a","p","i",":","9","0","0","0","/","v","1","/","f","i","l","e","s","/","d","o","w","n","l","o","a","d">> @@
    "HYPERBOLIC_BASE_URL" :> <<"h","t","t","p","s",":","/","/","a","p","i",".","h","y","p","e","r","b","o","l","i","c",".","x","y","z","/","v","1">> @@
    "QDRANT_URL" :> <<"h","t","t","p",":","/","/","q","d","r","a","n","t",":","6","3","3","3">> @@
    "MYSQL_HOST" :> DEFAULT_DB_SERVICE_NAME @@
    "MYSQL_PORT" :> DEFAULT_DB_CONTAINER_PORT @@
    "MYSQL_DATABASE" :> <<"c","o","s","m","i","c","_","c","a","t","a","l","y","s","t">> @@
    "MYSQL_USER" :> <<"o","l","l","a","m","a">> @@
    "BASE_URL_HEALTH" :> <<"h","t","t","p",":","/","/","a","p","i",":","9","0","0","0","/","v","1","/","h","e","a","l","t","h">> @@
    "SHELL_SERVER_URL" :> <<"w","s",":","/","/","s","a","n","d","b","o","x",":","8","0","0","0","/","w","s","/","c","o","m","p","u","t","e","r">> @@
    "CODE_EXECUTION_URL" :> <<"w","s",":","/","/","s","a","n","d","b","o","x",":","8","0","0","0","/","w","s","/","e","x","e","c","u","t","e">> @@
    "DISABLE_FIREJAIL" :> <<"t","r","u","e">> @@
    "SMBCLIENT_SERVER" :> <<"s","a","m","b","a","_","s","e","r","v","e","r">> @@
    "SMBCLIENT_SHARE" :> <<"c","o","s","m","i","c","_","s","h","a","r","e">> @@
    "SMBCLIENT_USERNAME" :> <<"s","a","m","b","a","_","u","s","e","r">> @@
    "SMBCLIENT_PASSWORD" :> <<"d","e","f","a","u","l","t">> @@
    "SMBCLIENT_PORT" :> <<"4","4","5">> @@
    "LOG_LEVEL" :> <<"I","N","F","O">> @@
    "PYTHONUNBUFFERED" :> <<"1">>

Orch_ENV_STRUCTURE == <<
    [section |-> "Base URLs", keys |-> <<"ASSISTANTS_BASE_URL", "SANDBOX_SERVER_URL", "DOWNLOAD_BASE_URL", "HYPERBOLIC_BASE_URL", "QDRANT_URL">>],
    [section |-> "Database Configuration", keys |-> <<"DATABASE_URL", "SPECIAL_DB_URL", "MYSQL_ROOT_PASSWORD", "MYSQL_DATABASE", "MYSQL_USER", "MYSQL_PASSWORD", "MYSQL_HOST", "MYSQL_PORT">>],
    [section |-> "API Keys & Secrets", keys |-> <<"API_KEY", "SIGNED_URL_SECRET", "SECRET_KEY">>],
    [section |-> "Platform Settings", keys |-> <<"BASE_URL_HEALTH", "SHELL_SERVER_URL", "CODE_EXECUTION_URL", "DISABLE_FIREJAIL">>],
    [section |-> "SMB Client Configuration", keys |-> <<"SMBCLIENT_SERVER", "SMBCLIENT_SHARE", "SMBCLIENT_USERNAME", "SMBCLIENT_PASSWORD", "SMBCLIENT_PORT">>],
    [section |-> "Tool Identifiers", keys |-> <<"TOOL_CODE_INTERPRETER", "TOOL_WEB_SEARCH", "TOOL_COMPUTER", "TOOL_VECTOR_STORE_SEARCH">>],
    [section |-> "Other", keys |-> <<"LOG_LEVEL", "PYTHONUNBUFFERED">>] >>

Start_GENERATED_SECRETS == {"SECRET_KEY", "MYSQL_ROOT_PASSWORD", "MYSQL_PASSWORD", "BOOTSTRAP_ADMIN_API_KEY", "ADMIN_API_KEY"}

Start_DEFAULT_VALUES ==
    "MYSQL_HOST" :> DEFAULT_DB_SERVICE_NAME @@
    "MYSQL_PORT" :> DEFAULT_DB_CONTAINER_PORT @@
    "MYSQL_DATABASE" :> <<"e","n","t","i","t","i","e","s","_","d","b">> @@
    "MYSQL_USER" :> <<"a","p","i","_","u","s","e","r">> @@
    "ASSISTANTS_BASE_URL" :> <<"h","t","t","p",":","/","/","a","p","i",":","9","0","0","0">> @@
    "SANDBOX_SERVER_URL" :> <<"h","t","t","p",":","/","/","s","a","n","d","b","o","x",":","8","0","0","0">> @@
    "QDRANT_URL" :> <<"h","t","t","p",":","/","/","q","d","r","a","n","t",":","6","3","3","3">> @@
    "LOG_LEVEL" :> <<"I","N","F","O">> @@
    "PYTHONUNBUFFERED" :> <<"1">> @@
    "DISABLE_FIREJAIL" :> <<"t","r","u","e">> @@
    "SMBCLIENT_SERVER" :> <<"s","a","m","b","a">> @@
    "SMBCLIENT_SHARE" :> <<"e","n","t","i","t","i","e","s","_","s","h","a","r","e">> @@
    "SMBCLIENT_USERNAME" :> <<"s","a","m","b","a","_","u","s","e","r">> @@
    "SMBCLIENT_PASSWORD" :> <<"d","e","f","a","u","l","t">> @@
    "SMBCLIENT_PORT" :> <<"4","4","5">> @@
    "BOOTSTRAP_ADMIN_EMAIL" :> <<"a","d","m","i","n","@","e","x","a","m","p","l","e",".","c","o","m">> @@
    "BOOTSTRAP_ADMIN_NAME" :> <<"D","e","f","a","u","l","t"," ","A","d","m","i","n">>

Start_ENV_STRUCTURE == <<
    [section |-> "Secrets", keys |-> <<"SECRET_KEY", "MYSQL_ROOT_PASSWORD", "MYSQL_PASSWORD", "BOOTSTRAP_ADMIN_API_KEY", "ADMIN_API_KEY">>],
    [section |-> "Database", keys |-> <<"DATABASE_URL", "SPECIAL_DB_URL", "MYSQL_HOST", "MYSQL_PORT", "MYSQL_DATABASE", "MYSQL_USER">>],
    [section |-> "Services", keys |-> <<"QDRANT_URL", "SANDBOX_SERVER_URL", "ASSISTANTS_BASE_URL">>],
    [section |-> "Samba", keys |-> <<"SHARED_PATH", "SMBCLIENT_SERVER", "SMBCLIENT_SHARE", "SMBCLIENT_USERNAME", "SMBCLIENT_PASSWORD", "SMBCLIENT_PORT">>],
    [section |-> "Application", keys |-> <<"LOG_LEVEL", "PYTHONUNBUFFERED", "DISABLE_FIREJAIL">>] >>

\* ---------------------------------------------------- compose config reader

\* The parsed docker-compose.yml as far as the scripts read it: the db service's
\* environment section (mapping form or list form) and its ports list.
EmptyDoc == [hasDb |-> FALSE, envForm |-> "none", envDict |-> <<>>, envList |-> <<>>, ports |-> <<>>]

NoConfig == [loaded |-> FALSE, doc |-> EmptyDoc]

\* _load_compose_config: None when the file is missing or does not parse
LoadComposeConfig(file) == IF file.state = "ok" THEN [loaded |-> TRUE, doc |-> file.doc] ELSE NoConfig

\* re.match(^NAME(?:=(.*))?$, item)
RECURSIVE EnvFromList(_, _)
EnvFromList(items, name) ==
    IF items = <<>> THEN None
    ELSE IF Head(items) = name THEN Some(<<>>)
    ELSE IF StartsWith(Head(items), name \o <<"=">>) THEN Some(From(Head(items), Len(name) + 2))
    ELSE EnvFromList(Tail(items), name)

\* DockerOrchestrationManager._get_env_from_compose_service
Orch_get_env_from_compose_service(cfg, service_name, env_var_name) ==
    IF ~cfg.loaded THEN None
    ELSE IF service_name # DEFAULT_DB_SERVICE_NAME \/ ~cfg.doc.hasDb THEN None
    ELSE IF cfg.doc.envForm = "dict" /\ DOMAIN cfg.doc.envDict # {}
         THEN IF env_var_name \in DOMAIN cfg.doc.envDict THEN cfg.doc.envDict[env_var_name] ELSE None
    ELSE IF cfg.doc.envForm = "list" /\ cfg.doc.envList # <<>>
         THEN EnvFromList(cfg.doc.envList, env_var_name)
    ELSE None

\* a scan that takes the first segment of the matching entry as the host port
RECURSIVE ScanPortsFirstSegment(_, _)
ScanPortsFirstSegment(ports, container_port) ==
    IF ports = <<>> THEN None
    ELSE LET parts == Split(Head(ports), ":")
             n == Len(parts)
         IN IF n >= 2 /\ parts[n] = container_port THEN Some(parts[1])
            ELSE ScanPortsFirstSegment(Tail(ports), container_port)

RECURSIVE OrchScanPorts(_, _)
OrchScanPorts(ports, container_port) ==
    IF ports = <<>> THEN None
    ELSE LET parts == Split(Head(ports), ":")
             n == Len(parts)
         IN IF n = 1 THEN OrchScanPorts(Tail(ports), container_port)
            ELSE IF parts[n] = container_port THEN Some(Strip(parts[n - 1]))
            ELSE OrchScanPorts(Tail(ports), container_port)

\* DockerOrchestrationManager._get_host_port_from_compose_service
Orch_get_host_port_from_compose_service(cfg, service_name, container_port) ==
    IF ~cfg.loaded THEN None
    ELSE IF service_name # DEFAULT_DB_SERVICE_NAME \/ ~cfg.doc.hasDb THEN None
    ELSE OrchScanPorts(cfg.doc.ports, container_port)

RECURSIVE StartScanPorts(_, _)
StartScanPorts(ports, container_port) ==
    IF ports = <<>> THEN None
    ELSE LET parts == Split(Head(ports), ":")
             n == Len(parts)
         IN IF n >= 2 /\ parts[n] = container_port THEN Some(parts[n - 1])
            ELSE StartScanPorts(Tail(ports), container_port)

\* DockerManager._get_host_port_from_compose_service
Start_get_host_port_from_compose_service(cfg, service, container_port) ==
    IF ~cfg.loaded THEN None
    ELSE IF service # DEFAULT_DB_SERVICE_NAME \/ ~cfg.doc.hasDb THEN None
    ELSE StartScanPorts(cfg.doc.ports, container_port)

\* ------------------------------------------------ secret/default synthesizer

\* dict.get(key) on a text mapping
Get(env, key) == IF key \in DOMAIN env THEN Some(env[key]) ELSE None

\* dict.get(key, default)
GetOr(env, key, default) == IF key \in DOMAIN env THEN env[key] ELSE default

\* step 1 of DockerOrchestrationManager._generate_dot_env_file: compose-sourced values
OrchFromCompose(cfg) ==
    LET got(k) == Orch_get_env_from_compose_service(cfg, DEFAULT_DB_SERVICE_NAME, Orch_COMPOSE_ENV_MAPPING[k])
    IN [k \in {x \in DOMAIN Orch_COMPOSE_ENV_MAPPING : cfg.loaded /\ got(x).some} |-> got(k).v]

\* a merge that also generates MYSQL_PASSWORD when compose gave none
OrchMergeGeneratingPassword(fromCompose, tok) ==
    ((fromCompose @@ Orch_DEFAULT_VALUES)
        @@ [k \in Orch_GENERATED_SECRETS \cup {"MYSQL_PASSWORD"} |-> tok[k]])
        @@ [k \in Orch_GENERATED_TOOL_IDS |-> <<"t","o","o","l","_">> \o tok[k]]

\* steps 2-4: defaults, then secrets, then tool ids, each only for a key not yet set
OrchMerge(fromCompose, tok) ==
    ((fromCompose @@ Orch_DEFAULT_VALUES)
        @@ [k \in Orch_GENERATED_SECRETS |-> tok[k]])
        @@ [k \in Orch_GENERATED_TOOL_IDS |-> <<"t","o","o","l","_">> \o tok[k]]

\* step 5: the composite database URLs
OrchDbUrls(cfg, env) ==
    LET db_user == Get(env, "MYSQL_USER")
        db_pass == Get(env, "MYSQL_PASSWORD")
        db_host_internal == GetOr(env, "MYSQL_HOST", DEFAULT_DB_SERVICE_NAME)
        db_port_internal == GetOr(env, "MYSQL_PORT", DEFAULT_DB_CONTAINER_PORT)
        db_name == Get(env, "MYSQL_DATABASE")
        escaped_pass == quote_plus(db_pass.v)
        host_db_port == Orch_get_host_port_from_compose_service(cfg, DEFAULT_DB_SERVICE_NAME, DEFAULT_DB_CONTAINER_PORT)
        internal == Scheme \o db_user.v \o <<":">> \o escaped_pass \o <<"@">> \o db_host_internal \o <<":">> \o db_port_internal \o <<"/">> \o db_name.v
        external == Scheme \o db_user.v \o <<":">> \o escaped_pass \o <<"@">> \o Localhost \o <<":">> \o host_db_port.v \o <<"/">> \o db_name.v
    IN IF Truthy(db_user) /\ db_pass.some /\ db_host_internal # <<>> /\ db_port_internal # <<>> /\ Truthy(db_name)
       THEN IF Truthy(host_db_port)
            THEN ("DATABASE_URL" :> internal) @@ ("SPECIAL_DB_URL" :> external)
            ELSE ("DATABASE_URL" :> internal)
       ELSE <<>>

\* DockerOrchestrationManager._generate_dot_env_file, steps 1-5: env_values
OrchEnvValues(cfg, tok) ==
    LET merged == OrchMerge(OrchFromCompose(cfg), tok)
    IN OrchDbUrls(cfg, merged) @@ merged

\* DockerManager._generate_dot_env_file: defaults, SHARED_PATH, then the secrets
StartMerge(shared_path, tok) ==
    LET withShared == IF Truthy(shared_path) THEN ("SHARED_PATH" :> shared_path.v) @@ Start_DEFAULT_VALUES ELSE Start_DEFAULT_VALUES
        admin_key == ADMIN_API_KEY_PREFIX \o tok["ADMIN_API_KEY"]
    IN [k \in Start_GENERATED_SECRETS |-> IF k \in {"BOOTSTRAP_ADMIN_API_KEY", "ADMIN_API_KEY"} THEN admin_key ELSE tok[k]] @@ withShared

StartDbUrls(cfg, env) ==
    LET escaped == quote_plus(env["MYSQL_PASSWORD"])
        db_url == Scheme \o env["MYSQL_USER"] \o <<":">> \o escaped \o <<"@">> \o env["MYSQL_HOST"] \o <<":">> \o env["MYSQL_PORT"] \o <<"/">> \o env["MYSQL_DATABASE"]
        host_port == Start_get_host_port_from_compose_service(cfg, DEFAULT_DB_SERVICE_NAME, DEFAULT_DB_CONTAINER_PORT)
    IN IF Truthy(host_port)
       THEN ("DATABASE_URL" :> db_url) @@ ("SPECIAL_DB_URL" :> Replace(Replace(db_url, env["MYSQL_HOST"], Localhost), env["MYSQL_PORT"], host_port.v))
       ELSE ("DATABASE_URL" :> db_url)

StartEnvValues(cfg, shared_path, tok) ==
    LET merged == StartMerge(shared_path, tok)
    IN StartDbUrls(cfg, merged) @@ merged

\* ----------------------------------------------------------- env file writer

\* A line of the file: a comment (k = "#", its text in c) or KEY=rhs.
Comment(text) == [k |-> "#", c |-> text, v |-> <<>>]

KeyLine(key, rhs) == [k |-> key, c |-> "", v |-> rhs]

\* the quoting rule of DockerOrchestrationManager._generate_dot_env_file
NeedsQuoting(value) ==
    \/ HasChar(value, " ") \/ HasChar(value, "#") \/ HasChar(value, "=")
    \/ (StartsWith(value, <<"\"">>) /\ EndsWith(value, <<"\"">>))
    \/ (StartsWith(value, <<"'">>) /\ EndsWith(value, <<"'">>))
    \/ value = <<>>

OrchRhs(value) ==
    IF NeedsQuoting(value)
    THEN <<"\"">> \o Replace(Replace(value, <<"\\">>, <<"\\", "\\">>), <<"\"">>, <<"\\", "\"">>) \o <<"\"">>
    ELSE value

\* the keys of a section that the mapping holds, in the section's order
RECURSIVE OrchSectionLines(_, _)
OrchSectionLines(keys, env) ==
    IF keys = <<>> THEN <<>>
    ELSE (IF Head(keys) \in DOMAIN env THEN <<KeyLine(Head(keys), OrchRhs(env[Head(keys)]))>> ELSE <<>>)
         \o OrchSectionLines(Tail(keys), env)

RECURSIVE OrchSections(_, _)
OrchSections(structure, env) ==
    IF structure = <<>> THEN <<>>
    ELSE LET body == OrchSectionLines(Head(structure).keys, env)
         IN <<Comment(Head(structure).section)>>
            \o (IF body = <<>> THEN <<Comment("(No variables configured for this section)")>> ELSE body)
            \o <<Comment("")>>
            \o OrchSections(Tail(structure), env)

\* sorted(list(...)); the keys are atoms here, so the order is some fixed one
RECURSIVE SortedSeq(_)
SortedSeq(keys) ==
    IF keys = {} THEN <<>>
    ELSE LET first == CHOOSE k \in keys : TRUE
         IN <<first>> \o SortedSeq(keys \ {first})

OrchRemaining(env) == DOMAIN env \ UNION {{Orch_ENV_STRUCTURE[i].keys[j] : j \in 1..Len(Orch_ENV_STRUCTURE[i].keys)} : i \in 1..Len(Orch_ENV_STRUCTURE)}

\* step 6 of DockerOrchestrationManager._generate_dot_env_file: the lines written
OrchRender(env) ==
    <<Comment("Auto-generated .env file"), Comment("")>>
    \o OrchSections(Orch_ENV_STRUCTURE, env)
    \o (IF OrchRemaining(env) = {} THEN <<>>
        ELSE <<Comment("Other (Uncategorized)")>>
             \o OrchSectionLines(SortedSeq(OrchRemaining(env)), env)
             \o <<Comment("")>>)

StartRhs(value) == <<"\"">> \o Replace(value, <<"\"">>, <<"\\", "\"">>) \o <<"\"">>

RECURSIVE StartSectionLines(_, _)
StartSectionLines(keys, env) ==
    IF keys = <<>> THEN <<>>
    ELSE (IF Head(keys) \in DOMAIN env THEN <<KeyLine(Head(keys), StartRhs(env[Head(keys)]))>> ELSE <<>>)
         \o StartSectionLines(Tail(keys), env)

RECURSIVE StartSections(_, _)
StartSections(structure, env) ==
    IF structure = <<>> THEN <<>>
    ELSE <<Comment(Head(structure).section)>> \o StartSectionLines(Head(structure).keys, env) \o StartSections(Tail(structure), env)

\* the lines DockerManager._generate_dot_env_file writes
StartRender(env) == <<Comment("Auto-generated .env")>> \o StartSections(Start_ENV_STRUCTURE, env)

\* -------------------------------------------------------------- the state

VARIABLES
    script,          \* "start" (start.py) or "orch" (start_orchestration.py)
    rawArgs,         \* the flags as typed
    args,            \* the argparse namespace after parse_args (run mutates clear_volumes)
    pc,              \* "parse", "init", "ollama", "nuke", "down", "up", "startrun", "exit"
    exitCode,        \* the process exit code, -1 while running
    host,            \* the machine: os (platform.system().lower()), docker (on PATH), smi (nvidia-smi
                     \* absent, ok or failing), inContainer (/.dockerenv or DOCKER_HOST), canMkdir and
                     \* canWrite (the file system lets the script), rng (the state of the secrets module)
    environ,         \* os.environ: SHARED_PATH
    composeFile,     \* docker-compose.yml on disk
    compose_config,  \* self.compose_config
    envFile,         \* .env on disk
    envAtStart,      \* .env as it was when the script started
    genCalls,        \* calls of _generate_dot_env_file
    env_values,      \* the mapping the last synthesis produced
    dirs,            \* directories created
    cmds,            \* external commands issued, in order, with their outcome
    typed,           \* what the confirmation prompts read, in order
    handlers,        \* handlers entered, in order
    \* scripts/bootstrap_admin.py
    bargs,           \* the parsed arguments: email, creds_file, dotenv_path
    runNo,           \* which run of the script this is (runs follow one another)
    bpc,             \* "setup", "user", "key", "save", "print", "report", "end", "done"
    users,           \* the User table (committed rows)
    keys,            \* the ApiKey table (committed rows)
    nextId,          \* the next identifier generate_user_id gives
    local,           \* run_bootstrap's locals: admin_user, plain_text_key, key_prefix
    files,           \* what save_credentials wrote: creds (the credentials file), dotenv
    console,         \* what the run printed, in order
    history,         \* one record per finished run
    sessions,        \* bootstrap runs executing at the same time against one database: for each
                     \* its position and what its queries returned
    \* scripts/create_user.py and scripts/bootstrap_default_assistant.py
    pscript,         \* "create_user" or "assistant"
    pargs,           \* what the script is given: admin_key (loadable), api_key, user_id, function_definitions
    ppc,             \* "start", "tools", "done"
    pexit,           \* the process exit code, -1 while running
    prun,            \* which run of the script this is
    api,             \* the remote API: up (reachable), fails (for each tool definition the call it
                     \* fails: none, create or associate), users, assistant (the default one exists),
                     \* tools, assoc
    calls            \* the API calls issued, in order, with their outcome

adminVars == <<bargs, runNo, bpc, users, keys, nextId, local, files, console, history, sessions>>

provVars == <<pscript, pargs, ppc, pexit, prun, api, calls>>

orchVars == <<script, rawArgs, args, pc, exitCode, host, environ, composeFile, compose_config, envFile, envAtStart, genCalls, env_values, dirs, cmds, typed, handlers>>

\* ------------------------------------------------------------- parse_args

\* parse_args with a --nuke reset that leaves with_ollama as given
parse_args_keeping_ollama(raw) ==
    LET a1 == IF raw.clear_volumes THEN [raw EXCEPT !.down = TRUE] ELSE raw
        a2 == IF a1.down /\ a1.mode = "up" /\ ~(a1.attached \/ a1.force_recreate) THEN [a1 EXCEPT !.mode = "down_only"] ELSE a1
    IN IF a2.nuke /\ (a2.mode # "up" \/ a2.down \/ a2.clear_volumes)
       THEN [a2 EXCEPT !.mode = "up", !.down = FALSE, !.clear_volumes = FALSE]
       ELSE a2

\* DockerOrchestrationManager.parse_args: implied actions and the --nuke reset
Orch_parse_args(raw) ==
    LET a1 == IF raw.clear_volumes THEN [raw EXCEPT !.down = TRUE] ELSE raw
        a2 == IF a1.down /\ a1.mode = "up" /\ ~(a1.attached \/ a1.force_recreate) THEN [a1 EXCEPT !.mode = "down_only"] ELSE a1
    IN IF a2.nuke /\ (a2.mode # "up" \/ a2.down \/ a2.clear_volumes \/ a2.with_ollama)
       THEN [a2 EXCEPT !.mode = "up", !.down = FALSE, !.clear_volumes = FALSE, !.with_ollama = FALSE]
       ELSE a2

\* DockerManager.parse_args: --mode only
Start_parse_args(raw) == raw

\* ------------------------------------------------------- external commands

\* a command issued: its argv, its outcome, and the handler that issued it
Cmd(argv, rc) == [argv |-> argv, rc |-> rc, by |-> ""]

By(cs, handler) == [i \in DOMAIN cs |-> [cs[i] EXCEPT !.by = handler]]

\* a line read by a handler's prompt
Read(inp, handler) == [by |-> handler, inp |-> inp]

\* subprocess.run of a docker command: exit 0, a non-zero exit, or the executable
\* is not found (FileNotFoundError; with shell=True on Windows a non-zero exit)
Outcomes(os, installed) == IF installed THEN {"ok", "fail"} ELSE IF os = "windows" THEN {"fail"} ELSE {"missing"}

IsDocker(c) == c.argv # <<>> /\ c.argv[1] = "docker"

HasPrefix(c, p) == Len(c.argv) >= Len(p) /\ SubSeq(c.argv, 1, Len(p)) = p

IsComposeDown(c) == HasPrefix(c, <<"docker", "compose", "down">>)

IsPrune(c) == HasPrefix(c, <<"docker", "system", "prune">>)

HasArg(c, a) == \E i \in 1..Len(c.argv) : c.argv[i] = a

\* what input() gives: a line, end of input (EOFError) or Ctrl-C (KeyboardInterrupt)
Line(text) == [kind |-> "text", text |-> text]

Eof == [kind |-> "eof", text |-> <<>>]

Inputs == {Line(<<"c","o","n","f","i","r","m"," ","n","u","k","e">>), Line(<<"C","o","n","f","i","r","m"," ","N","u","k","e">>), Line(<<"c","o","n","f","i","r","m"," ","n","u","k","e"," ">>), Line(<<"y","e","s">>), Line(<<" ","Y","E","S">>), Line(<<"n","o">>), Eof, [kind |-> "interrupt", text |-> <<>>]}

\* ------------------------------------------------------ shared path

Home(os) == IF os = "windows" THEN <<"C",":","\\","U","s","e","r","s","\\","u">> ELSE IF os = "darwin" THEN <<"/","U","s","e","r","s","/","u">> ELSE <<"/","h","o","m","e","/","u">>

Sep(os) == IF os = "windows" THEN <<"\\">> ELSE <<"/">>

RECURSIVE PathJoin(_, _, _)
PathJoin(base, parts, sep) == IF parts = <<>> THEN base ELSE PathJoin(base \o sep \o Head(parts), Tail(parts), sep)

\* DockerOrchestrationManager._configure_shared_path: the path used
Orch_shared_path(os, shared_path_env) ==
    IF Truthy(shared_path_env) THEN shared_path_env.v
    ELSE IF os = "windows" THEN PathJoin(Home(os), <<<<"e","n","t","i","t","i","e","s","_","s","h","a","r","e">>>>, Sep(os))
    ELSE IF os = "linux" THEN PathJoin(Home(os), <<<<".","l","o","c","a","l">>, <<"s","h","a","r","e">>, <<"e","n","t","i","t","i","e","s","_","s","h","a","r","e">>>>, Sep(os))
    ELSE IF os = "darwin" THEN PathJoin(Home(os), <<<<"L","i","b","r","a","r","y">>, <<"A","p","p","l","i","c","a","t","i","o","n"," ","S","u","p","p","o","r","t">>, <<"e","n","t","i","t","i","e","s","_","s","h","a","r","e">>>>, Sep(os))
    ELSE <<".","/","e","n","t","i","t","i","e","s","_","s","h","a","r","e">>

\* DockerManager._configure_shared_path: the path used, None on an unsupported OS
Start_shared_path(os, shared_path_env) ==
    IF os = "windows" THEN Some(PathJoin(Home(os), <<<<"D","o","c","u","m","e","n","t","s">>, <<"e","n","t","i","t","i","e","s","_","s","h","a","r","e">>>>, Sep(os)))
    ELSE IF os = "linux" THEN Some(PathJoin(Home(os), <<<<".","l","o","c","a","l">>, <<"s","h","a","r","e">>, <<"e","n","t","i","t","i","e","s","_","a","p","i","_","s","h","a","r","e">>>>, Sep(os)))
    ELSE IF os = "darwin" THEN Some(PathJoin(Home(os), <<<<"L","i","b","r","a","r","y">>, <<"A","p","p","l","i","c","a","t","i","o","n"," ","S","u","p","p","o","r","t">>, <<"e","n","t","i","t","i","e","s","_","a","p","i","_","s","h","a","r","e">>>>, Sep(os)))
    ELSE None

\* ------------------------------------------------------ generated secrets

\* secrets.token_hex / secrets.token_urlsafe: the values a draw can give, cut short
TokenPool == <<<<"k","7","Q","z">>, <<"d","b">>, <<"9","f","3","3","0","6">>>>

GeneratedKeys == <<"SIGNED_URL_SECRET", "API_KEY", "SECRET_KEY", "TOOL_CODE_INTERPRETER", "TOOL_WEB_SEARCH", "TOOL_COMPUTER", "TOOL_VECTOR_STORE_SEARCH", "MYSQL_ROOT_PASSWORD", "MYSQL_PASSWORD", "ADMIN_API_KEY">>

\* one run's draws: under seed s the i-th generated key gets the (i+s)-th value of the pool
Draws(seed) == [k \in {GeneratedKeys[i] : i \in DOMAIN GeneratedKeys} |-> TokenPool[((((CHOOSE i \in DOMAIN GeneratedKeys : GeneratedKeys[i] = k) + seed)) % Len(TokenPool)) + 1]]

\* ------------------------------------------------- the managers' handlers

\* a check that calls the generator whether or not the file exists
AlwaysGenerate(file) == TRUE

\* _check_for_required_env_file: whether the generator is to be called
Orch_check_for_required_env_file(file) == ~file.exists

\* _check_or_generate_env_file: whether the generator is to be called
Start_check_or_generate_env_file(file) == ~file.exists

File(lines) == [exists |-> TRUE, lines |-> lines]

Absent == [exists |-> FALSE, lines |-> <<>>]

\* DockerOrchestrationManager.run: the handler that runs after construction
AfterDown(a) == IF a.mode = "up" THEN "up" ELSE "exit"

\* a run that does not look at the nuke flag
AfterOllamaWithoutNuke(a) ==
    IF a.down \/ a.clear_volumes \/ a.mode = "down_only" THEN "down"
    ELSE AfterDown(a)

AfterOllama(a) ==
    IF a.nuke THEN "nuke"
    ELSE IF a.down \/ a.clear_volumes \/ a.mode = "down_only" THEN "down"
    ELSE AfterDown(a)

RunEntry(a) == IF a.with_ollama THEN "ollama" ELSE AfterOllama(a)

\* _has_nvidia_support: nvidia-smi is absent, runs, or fails
NvidiaProbe(smi) == IF smi = "absent" THEN <<>> ELSE <<Cmd(<<"nvidia-smi">>, IF smi = "ok" THEN "ok" ELSE "fail")>>

OllamaPs == <<"docker", "ps", "--filter", "name=^ollama$", "--quiet">>

OllamaRunArgv(gpu) == <<"docker", "run">> \o (IF gpu THEN <<"--gpus=all">> ELSE <<>>) \o <<"-d", "--rm", "-v", "ollama:/root/.ollama", "-p", "11434:11434", "--name", "ollama", "ollama/ollama">>

\* a sidecar start that goes on to docker run when the pull failed
start_ollama_after_failed_pull(cpu_only, smi, in) ==
    LET ps1 == <<Cmd(OllamaPs, "ok")>>
        images == <<Cmd(<<"docker", "images", "ollama/ollama", "--quiet">>, "ok")>>
        pull == IF in.present THEN <<>> ELSE <<Cmd(<<"docker", "pull", "ollama/ollama">>, in.pull)>>
        probe == IF cpu_only THEN <<>> ELSE NvidiaProbe(smi)
        gpu == ~cpu_only /\ smi = "ok"
        run == <<Cmd(OllamaRunArgv(gpu), in.run)>>
        ps2 == <<Cmd(OllamaPs, "ok")>>
        logs == <<Cmd(<<"docker", "logs", "ollama">>, "ok")>>
    IN IF in.running1 THEN [cmds |-> ps1, ok |-> TRUE]
       ELSE IF in.run # "ok" THEN [cmds |-> ps1 \o images \o pull \o probe \o run, ok |-> FALSE]
       ELSE IF in.running2 THEN [cmds |-> ps1 \o images \o pull \o probe \o run \o ps2, ok |-> TRUE]
       ELSE [cmds |-> ps1 \o images \o pull \o probe \o run \o ps2 \o logs, ok |-> FALSE]

\* DockerOrchestrationManager._start_ollama
Orch_start_ollama(cpu_only, smi, in) ==
    LET ps1 == <<Cmd(OllamaPs, "ok")>>
        images == <<Cmd(<<"docker", "images", "ollama/ollama", "--quiet">>, "ok")>>
        pull == IF in.present THEN <<>> ELSE <<Cmd(<<"docker", "pull", "ollama/ollama">>, in.pull)>>
        probe == IF cpu_only THEN <<>> ELSE NvidiaProbe(smi)
        gpu == ~cpu_only /\ smi = "ok"
        run == <<Cmd(OllamaRunArgv(gpu), in.run)>>
        ps2 == <<Cmd(OllamaPs, "ok")>>
        logs == <<Cmd(<<"docker", "logs", "ollama">>, "ok")>>
    IN IF in.running1 THEN [cmds |-> ps1, ok |-> TRUE]
       ELSE IF ~in.present /\ in.pull # "ok" THEN [cmds |-> ps1 \o images \o pull, ok |-> FALSE]
       ELSE IF in.run # "ok" THEN [cmds |-> ps1 \o images \o pull \o probe \o run, ok |-> FALSE]
       ELSE IF in.running2 THEN [cmds |-> ps1 \o images \o pull \o probe \o run \o ps2, ok |-> TRUE]
       ELSE [cmds |-> ps1 \o images \o pull \o probe \o run \o ps2 \o logs, ok |-> FALSE]

\* DockerOrchestrationManager._ensure_ollama(opt_in=True, use_gpu)
Orch_ensure_ollama(a, h, in) ==
    IF h.inContainer THEN [cmds |-> <<>>, ok |-> TRUE]
    ELSE IF ~h.docker THEN [cmds |-> <<>>, ok |-> FALSE]
    ELSE LET attempt_gpu == a.ollama_gpu /\ h.smi = "ok"
             started == Orch_start_ollama(~attempt_gpu, h.smi, in)
         IN [cmds |-> NvidiaProbe(h.smi) \o started.cmds, ok |-> started.ok]

NukeDown == <<"docker", "compose", "down", "--volumes", "--remove-orphans">>

NukePrune == <<"docker", "system", "prune", "-a", "--volumes", "--force">>

\* a nuke handler that gives up when the compose down fails
handle_nuke_stopping_at_failed_down(inp, downRc, pruneRc) ==
    IF inp.kind = "eof" THEN [cmds |-> <<>>, exit |-> 1]
    ELSE IF inp.kind = "interrupt" THEN [cmds |-> <<>>, exit |-> 130]
    ELSE IF inp.text # <<"c","o","n","f","i","r","m"," ","n","u","k","e">> THEN [cmds |-> <<>>, exit |-> 0]
    ELSE IF downRc # "ok" THEN [cmds |-> <<Cmd(NukeDown, downRc)>>, exit |-> 1]
    ELSE [cmds |-> <<Cmd(NukeDown, downRc), Cmd(NukePrune, pruneRc)>>, exit |-> IF pruneRc = "ok" THEN 0 ELSE 1]

\* a nuke handler that accepts the confirmation in any case and with surrounding blanks
handle_nuke_lenient(inp, downRc, pruneRc) ==
    IF inp.kind = "eof" THEN [cmds |-> <<>>, exit |-> 1]
    ELSE IF inp.kind = "interrupt" THEN [cmds |-> <<>>, exit |-> 130]
    ELSE IF Strip(Lower(inp.text)) # <<"c","o","n","f","i","r","m"," ","n","u","k","e">> THEN [cmds |-> <<>>, exit |-> 0]
    ELSE [cmds |-> <<Cmd(NukeDown, downRc), Cmd(NukePrune, pruneRc)>>, exit |-> IF pruneRc = "ok" THEN 0 ELSE 1]

\* DockerOrchestrationManager._handle_nuke, and the sys.exit(0) that follows it in run
Orch_handle_nuke(inp, downRc, pruneRc) ==
    IF inp.kind = "eof" THEN [cmds |-> <<>>, exit |-> 1]
    ELSE IF inp.kind = "interrupt" THEN [cmds |-> <<>>, exit |-> 130]
    ELSE IF inp.text # <<"c","o","n","f","i","r","m"," ","n","u","k","e">> THEN [cmds |-> <<>>, exit |-> 0]
    ELSE [cmds |-> <<Cmd(NukeDown, downRc), Cmd(NukePrune, pruneRc)>>, exit |-> IF pruneRc = "ok" THEN 0 ELSE 1]

\* a down handler that removes volumes whether or not --clear-volumes was given
handle_down_always_with_volumes(a, inp, rc) ==
    LET confirm == Strip(Lower(inp.text))
        clear == a.clear_volumes /\ confirm = <<"y","e","s">>
        down_cmd == <<"docker", "compose", "down", "--volumes", "--remove-orphans">> \o a.services
    IN IF a.clear_volumes /\ inp.kind = "eof" THEN [cmds |-> <<>>, exit |-> 1, clear_volumes |-> a.clear_volumes]
       ELSE IF a.clear_volumes /\ inp.kind = "interrupt" THEN [cmds |-> <<>>, exit |-> 130, clear_volumes |-> a.clear_volumes]
       ELSE [cmds |-> <<Cmd(down_cmd, rc)>>, exit |-> IF a.mode = "down_only" THEN 0 ELSE -1, clear_volumes |-> clear]

\* a down handler that keeps --volumes when the confirmation is refused
handle_down_keeping_volumes(a, inp, rc) ==
    LET down_cmd == <<"docker", "compose", "down">> \o (IF a.clear_volumes THEN <<"--volumes">> ELSE <<>>) \o <<"--remove-orphans">> \o a.services
    IN IF a.clear_volumes /\ inp.kind = "eof" THEN [cmds |-> <<>>, exit |-> 1, clear_volumes |-> a.clear_volumes]
       ELSE IF a.clear_volumes /\ inp.kind = "interrupt" THEN [cmds |-> <<>>, exit |-> 130, clear_volumes |-> a.clear_volumes]
       ELSE [cmds |-> <<Cmd(down_cmd, rc)>>, exit |-> IF a.mode = "down_only" THEN 0 ELSE -1, clear_volumes |-> a.clear_volumes]

\* DockerOrchestrationManager._handle_down; exit -1: the run goes on
Orch_handle_down(a, inp, rc) ==
    LET confirm == Strip(Lower(inp.text))
        clear == a.clear_volumes /\ confirm = <<"y","e","s">>
        down_cmd == <<"docker", "compose", "down">> \o (IF clear THEN <<"--volumes">> ELSE <<>>) \o <<"--remove-orphans">> \o a.services
    IN IF a.clear_volumes /\ inp.kind = "eof" THEN [cmds |-> <<>>, exit |-> 1, clear_volumes |-> a.clear_volumes]
       ELSE IF a.clear_volumes /\ inp.kind = "interrupt" THEN [cmds |-> <<>>, exit |-> 130, clear_volumes |-> a.clear_volumes]
       ELSE [cmds |-> <<Cmd(down_cmd, rc)>>, exit |-> IF a.mode = "down_only" THEN 0 ELSE -1, clear_volumes |-> clear]

\* an up handler that tries docker compose up a second time when it failed
handle_up_retrying(a, file, rc, logsRc) ==
    LET up_cmd == <<"docker", "compose", "up">> \o (IF a.attached THEN <<>> ELSE <<"-d">>) \o (IF a.force_recreate THEN <<"--force-recreate">> ELSE <<>>) \o <<"--pull", "always">> \o a.services
        logs_cmd == <<"docker", "compose", "logs", "--tail=100">> \o a.services
    IN IF ~file.exists THEN [cmds |-> <<>>, exit |-> 1]
       ELSE IF rc = "ok" THEN [cmds |-> <<Cmd(up_cmd, rc)>>, exit |-> 0]
       ELSE IF rc = "fail" THEN [cmds |-> <<Cmd(up_cmd, rc), Cmd(up_cmd, rc), Cmd(logs_cmd, logsRc)>>, exit |-> 1]
       ELSE [cmds |-> <<Cmd(up_cmd, rc)>>, exit |-> 1]

\* an up handler that returns normally whatever the command's exit code
handle_up_ignoring_failure(a, file, rc, logsRc) ==
    LET up_cmd == <<"docker", "compose", "up">> \o (IF a.attached THEN <<>> ELSE <<"-d">>) \o (IF a.force_recreate THEN <<"--force-recreate">> ELSE <<>>) \o <<"--pull", "always">> \o a.services
    IN IF ~file.exists THEN [cmds |-> <<>>, exit |-> 1]
       ELSE [cmds |-> <<Cmd(up_cmd, rc)>>, exit |-> 0]

\* DockerOrchestrationManager._handle_up; a normal return ends run, and the process, with 0
Orch_handle_up(a, file, rc, logsRc) ==
    LET up_cmd == <<"docker", "compose", "up">> \o (IF a.attached THEN <<>> ELSE <<"-d">>) \o (IF a.force_recreate THEN <<"--force-recreate">> ELSE <<>>) \o <<"--pull", "always">> \o a.services
        logs_cmd == <<"docker", "compose", "logs", "--tail=100">> \o a.services
    IN IF ~file.exists THEN [cmds |-> <<>>, exit |-> 1]
       ELSE IF rc = "ok" THEN [cmds |-> <<Cmd(up_cmd, rc)>>, exit |-> 0]
       ELSE IF rc = "fail" THEN [cmds |-> <<Cmd(up_cmd, rc), Cmd(logs_cmd, logsRc)>>, exit |-> 1]
       ELSE [cmds |-> <<Cmd(up_cmd, rc)>>, exit |-> 1]

\* DockerManager._run_command: no shell, so a missing executable is FileNotFoundError
StartOutcomes(installed) == IF installed THEN {"ok", "fail"} ELSE {"missing"}

\* DockerManager.run: check=True, so a failure reaches the except of __main__
Start_run(a, rc) ==
    LET argv == IF a.mode = "down_only" THEN <<"docker", "compose", "down", "--remove-orphans">> ELSE <<"docker", "compose", "up", "-d">>
    IN [cmds |-> <<Cmd(argv, rc)>>, exit |-> IF rc = "ok" THEN 0 ELSE 1]

\* ------------------------------------------------------------------ actions

ParseArgs ==
    /\ pc = "parse"
    /\ args' = IF script = "orch" THEN Orch_parse_args(rawArgs) ELSE Start_parse_args(rawArgs)
    /\ pc' = "init"
    /\ UNCHANGED <<script, rawArgs, exitCode, host, environ, composeFile, compose_config, envFile, envAtStart, genCalls, env_values, dirs, cmds, typed, handlers>>
    /\ UNCHANGED adminVars
    /\ UNCHANGED provVars

\* DockerOrchestrationManager.__init__
ConstructOrch ==
    /\ pc = "init" /\ script = "orch"
    /\ LET cfg == LoadComposeConfig(composeFile)
           generate == Orch_check_for_required_env_file(envFile)
           shared_path == Orch_shared_path(host.os, environ.SHARED_PATH)
           writeOk == host.canWrite
           mkdirOk == host.canMkdir
           values == OrchEnvValues(cfg, Draws(host.rng))
       IN      /\ compose_config' = cfg
               /\ genCalls' = IF generate THEN genCalls + 1 ELSE genCalls
               /\ env_values' = IF generate THEN values ELSE env_values
               /\ envFile' = IF generate /\ writeOk THEN File(OrchRender(values)) ELSE envFile
               /\ IF generate /\ ~writeOk
                  THEN /\ pc' = "exit" /\ exitCode' = 1
                       /\ UNCHANGED <<environ, dirs>>
                  ELSE /\ pc' = RunEntry(args)
                       /\ exitCode' = IF RunEntry(args) = "exit" THEN 0 ELSE exitCode
                       /\ environ' = IF Truthy(environ.SHARED_PATH) THEN environ ELSE [environ EXCEPT !.SHARED_PATH = Some(shared_path)]
                       /\ dirs' = IF mkdirOk THEN dirs \cup {shared_path} ELSE dirs
    /\ UNCHANGED <<script, rawArgs, args, host, composeFile, envAtStart, cmds, typed, handlers>>
    /\ UNCHANGED adminVars
    /\ UNCHANGED provVars

\* DockerManager.__init__
ConstructStart ==
    /\ pc = "init" /\ script = "start"
    /\ LET cfg == LoadComposeConfig(composeFile)
           shared == Start_shared_path(host.os, environ.SHARED_PATH)
           generate == Start_check_or_generate_env_file(envFile)
           writeOk == host.canWrite
           mkdirOk == host.canMkdir
           values == StartEnvValues(cfg, shared, Draws(host.rng))
           generated == shared.some /\ mkdirOk /\ generate
       IN      /\ compose_config' = cfg
               /\ dirs' = IF shared.some /\ mkdirOk THEN dirs \cup {shared.v} ELSE dirs
               /\ environ' = IF shared.some /\ mkdirOk THEN [environ EXCEPT !.SHARED_PATH = shared] ELSE environ
               /\ genCalls' = IF generated THEN genCalls + 1 ELSE genCalls
               /\ env_values' = IF generated THEN values ELSE env_values
               /\ envFile' = IF generated /\ writeOk THEN File(StartRender(values)) ELSE envFile
               /\ IF ~shared.some \/ ~mkdirOk \/ (generate /\ ~writeOk)
                  THEN pc' = "exit" /\ exitCode' = 1
                  ELSE pc' = "startrun" /\ exitCode' = exitCode
    /\ UNCHANGED <<script, rawArgs, args, host, composeFile, envAtStart, cmds, typed, handlers>>
    /\ UNCHANGED adminVars
    /\ UNCHANGED provVars

\* a run that gives up when the sidecar step reports failure
EnsureOllamaFatal ==
    /\ pc = "ollama"
    /\ \E in \in [running1 : BOOLEAN, present : BOOLEAN, pull : {"ok", "fail"}, run : {"ok", "fail"}, running2 : BOOLEAN] :
        LET r == Orch_ensure_ollama(args, host, in)
        IN /\ cmds' = cmds \o By(r.cmds, "ollama")
           /\ pc' = IF r.ok THEN AfterOllama(args) ELSE "exit"
           /\ exitCode' = IF ~r.ok THEN 1 ELSE IF AfterOllama(args) = "exit" THEN 0 ELSE exitCode
    /\ handlers' = Append(handlers, "ollama")
    /\ UNCHANGED <<script, rawArgs, args, host, environ, composeFile, compose_config, envFile, envAtStart, genCalls, env_values, dirs, typed>>
    /\ UNCHANGED adminVars
    /\ UNCHANGED provVars

\* run: the optional sidecar step
EnsureOllama ==
    /\ pc = "ollama"
    /\ \E in \in [running1 : BOOLEAN, present : BOOLEAN, pull : {"ok", "fail"}, run : {"ok", "fail"}, running2 : BOOLEAN] :
        cmds' = cmds \o By(Orch_ensure_ollama(args, host, in).cmds, "ollama")
    /\ handlers' = Append(handlers, "ollama")
    /\ pc' = AfterOllama(args)
    /\ exitCode' = IF AfterOllama(args) = "exit" THEN 0 ELSE exitCode
    /\ UNCHANGED <<script, rawArgs, args, host, environ, composeFile, compose_config, envFile, envAtStart, genCalls, env_values, dirs, typed>>
    /\ UNCHANGED adminVars
    /\ UNCHANGED provVars

HandleNuke ==
    /\ pc = "nuke"
    /\ \E inp \in Inputs, downRc \in Outcomes(host.os, host.docker), pruneRc \in Outcomes(host.os, host.docker) :
        LET r == Orch_handle_nuke(inp, downRc, pruneRc)
        IN /\ cmds' = cmds \o By(r.cmds, "nuke")
           /\ typed' = Append(typed, Read(inp, "nuke"))
           /\ exitCode' = r.exit
    /\ handlers' = Append(handlers, "nuke")
    /\ pc' = "exit"
    /\ UNCHANGED <<script, rawArgs, args, host, environ, composeFile, compose_config, envFile, envAtStart, genCalls, env_values, dirs>>
    /\ UNCHANGED adminVars
    /\ UNCHANGED provVars

HandleDown ==
    /\ pc = "down"
    /\ \E inp \in (IF args.clear_volumes THEN Inputs ELSE {Line(<<>>)}), rc \in Outcomes(host.os, host.docker) :
        LET r == Orch_handle_down(args, inp, rc)
        IN /\ cmds' = cmds \o By(r.cmds, "down")
           /\ typed' = IF args.clear_volumes THEN Append(typed, Read(inp, "down")) ELSE typed
           /\ args' = [args EXCEPT !.clear_volumes = r.clear_volumes]
           /\ IF r.exit # -1
              THEN pc' = "exit" /\ exitCode' = r.exit
              ELSE /\ pc' = AfterDown(args)
                   /\ exitCode' = IF AfterDown(args) = "exit" THEN 0 ELSE exitCode
    /\ handlers' = Append(handlers, "down")
    /\ UNCHANGED <<script, rawArgs, host, environ, composeFile, compose_config, envFile, envAtStart, genCalls, env_values, dirs>>
    /\ UNCHANGED adminVars
    /\ UNCHANGED provVars

HandleUp ==
    /\ pc = "up"
    /\ \E rc \in Outcomes(host.os, host.docker), logsRc \in Outcomes(host.os, host.docker) :
        LET r == Orch_handle_up(args, envFile, rc, logsRc)
        IN /\ cmds' = cmds \o By(r.cmds, "up")
           /\ exitCode' = r.exit
    /\ handlers' = Append(handlers, "up")
    /\ pc' = "exit"
    /\ UNCHANGED <<script, rawArgs, args, host, environ, composeFile, compose_config, envFile, envAtStart, genCalls, env_values, dirs, typed>>
    /\ UNCHANGED adminVars
    /\ UNCHANGED provVars

RunStart ==
    /\ pc = "startrun"
    /\ \E rc \in StartOutcomes(host.docker) :
        LET r == Start_run(args, rc)
        IN /\ cmds' = cmds \o By(r.cmds, IF args.mode = "down_only" THEN "down" ELSE "up")
           /\ exitCode' = r.exit
    /\ handlers' = Append(handlers, IF args.mode = "down_only" THEN "down" ELSE "up")
    /\ pc' = "exit"
    /\ UNCHANGED <<script, rawArgs, args, host, environ, composeFile, compose_config, envFile, envAtStart, genCalls, env_values, dirs, typed>>
    /\ UNCHANGED adminVars
    /\ UNCHANGED provVars

\* ------------------------------------------- scripts/bootstrap_admin.py

\* a bound of the model: how many times the script is run, one run after another
MaxRuns == 2

DEFAULT_ADMIN_EMAIL == "admin@example.com"

\* plain_text_api_key[:8]
PrefixLength == 8

\* ApiKey.generate_key(prefix="ad_")
BootstrapKeyPrefix == <<"a","d","_">>

Emails == {DEFAULT_ADMIN_EMAIL, "ops@example.com"}

BootstrapArgs == [email : Emails, creds_file : {<<".","/","a","d","m","i","n","_","c","r","e","d","e","n","t","i","a","l","s",".","t","x","t">>, <<"a","d","m","i","n","_","c","r","e","d","e","n","t","i","a","l","s",".","t","x","t">>, <<"/","a","p","p","/","o","u","t","/","a","d","m","i","n","_","c","r","e","d","e","n","t","i","a","l","s",".","t","x","t">>}, dotenv_path : {<<".","/",".","e","n","v">>, <<".","e","n","v">>}]

\* os.path.dirname (posixpath): up to the last slash, trailing slashes dropped unless it is all slashes
RECURSIVE RStripSlashes(_)
RStripSlashes(s) == IF s # <<>> /\ s[Len(s)] = "/" THEN RStripSlashes(SubSeq(s, 1, Len(s) - 1)) ELSE s

Dirname(p) ==
    LET last == IF HasChar(p, "/") THEN CHOOSE i \in 1..Len(p) : p[i] = "/" /\ \A j \in (i + 1)..Len(p) : p[j] # "/" ELSE 0
        head == SubSeq(p, 1, last)
    IN IF head # <<>> /\ RStripSlashes(head) # <<>> THEN RStripSlashes(head) ELSE head

\* os.makedirs(d, exist_ok=True): FileNotFoundError on the empty path, else as the file system allows
Makedirs(d, allowed) == d # <<>> /\ allowed

\* ApiKey.generate_key(prefix="ad_"): the prefix and a random token; the n-th draw of the run pair
GenerateKey(prefix, n) == prefix \o <<(<<"0", "1", "2", "3", "4", "5", "6", "7", "8", "9">>)[(n % 10) + 1]>> \o <<"Q","z","9","f","K","2","x","P","w">>

\* ApiKey.hash_key: one-way, written here as a tagged reversal
HashKey(plain) == <<"h","$">> \o [i \in 1..Len(plain) |-> plain[Len(plain) + 1 - i]]

\* a line group printed on the console
Out(kind, text) == [kind |-> kind, text |-> text]

UserRow(id, email, is_admin) == [id |-> id, email |-> email, is_admin |-> is_admin]

KeyRow(id, user_id, plain) == [id |-> id, user_id |-> user_id, prefix |-> SubSeq(plain, 1, IF Len(plain) < PrefixLength THEN Len(plain) ELSE PrefixLength), hashed_key |-> HashKey(plain)]

\* Query.first() on a set of rows: the row with the least id
First(rows) == CHOOSE r \in rows : \A q \in rows : r.id <= q.id

\* find_or_create_admin_user: admin_user 0 is the None it returns after an exception
find_or_create_admin_user(us, id, admin_email, fault) ==
    LET found == {u \in us : u.email = admin_email}
        failed == [users |-> us, admin_user |-> 0, inserts |-> 0, drawn |-> 0, raised |-> TRUE, out |-> <<Out("error", <<>>)>>]
    IN IF fault = "query" THEN failed
       ELSE IF found # {}
       THEN LET u == First(found)
                promoted == (us \ {u}) \cup {[u EXCEPT !.is_admin = TRUE]}
            IN IF u.is_admin THEN [users |-> us, admin_user |-> u.id, inserts |-> 0, drawn |-> 0, raised |-> FALSE, out |-> <<>>]
               ELSE IF fault = "commit" THEN failed
               ELSE IF fault = "refresh" THEN [failed EXCEPT !.users = promoted]
               ELSE [users |-> promoted, admin_user |-> u.id, inserts |-> 0, drawn |-> 0, raised |-> FALSE, out |-> <<>>]
       ELSE LET created == us \cup {UserRow(id, admin_email, TRUE)}
            IN IF fault = "commit" THEN [failed EXCEPT !.drawn = 1]
               ELSE IF fault = "refresh" THEN [failed EXCEPT !.users = created, !.inserts = 1, !.drawn = 1]
               ELSE [users |-> created, admin_user |-> id, inserts |-> 1, drawn |-> 1, raised |-> FALSE, out |-> <<>>]

\* generate_and_save_key with no look at the existing keys
generate_key_unchecked(ks, user_id, id, fault) ==
    LET plain == GenerateKey(BootstrapKeyPrefix, id)
        row == KeyRow(id, user_id, plain)
    IN IF fault # "none"
       THEN [keys |-> ks, plain_text_key |-> None, key_prefix |-> None, inserts |-> 0, drawn |-> 0, raised |-> TRUE, found |-> FALSE, out |-> <<Out("error", <<>>)>>]
       ELSE [keys |-> ks \cup {row}, plain_text_key |-> Some(plain), key_prefix |-> Some(row.prefix), inserts |-> 1, drawn |-> 1, raised |-> FALSE, found |-> FALSE, out |-> <<>>]

\* key generation whose failed commit is not rolled back: the added row stays in the table
generate_key_without_rollback(ks, user_id, id, fault) ==
    LET existing == {k \in ks : k.user_id = user_id}
        plain == GenerateKey(BootstrapKeyPrefix, id)
        row == KeyRow(id, user_id, plain)
        failed == [keys |-> ks, plain_text_key |-> None, key_prefix |-> None, inserts |-> 0, drawn |-> 0, raised |-> TRUE, found |-> FALSE, out |-> <<Out("error", <<>>)>>]
    IN IF fault = "query" THEN failed
       ELSE IF existing # {}
       THEN [keys |-> ks, plain_text_key |-> None, key_prefix |-> Some(First(existing).prefix), inserts |-> 0, drawn |-> 0, raised |-> FALSE, found |-> TRUE, out |-> <<Out("info_existing", <<>>)>>]
       ELSE IF fault = "commit" THEN [failed EXCEPT !.drawn = 1, !.keys = ks \cup {row}]
       ELSE [keys |-> ks \cup {row}, plain_text_key |-> Some(plain), key_prefix |-> Some(row.prefix), inserts |-> 1, drawn |-> 1, raised |-> FALSE, found |-> FALSE, out |-> <<>>]

\* generate_and_save_key: (plain_text_api_key, key_prefix), (None, existing prefix) or (None, None)
generate_and_save_key(ks, user_id, id, fault) ==
    LET existing == {k \in ks : k.user_id = user_id}
        plain == GenerateKey(BootstrapKeyPrefix, id)
        row == KeyRow(id, user_id, plain)
        failed == [keys |-> ks, plain_text_key |-> None, key_prefix |-> None, inserts |-> 0, drawn |-> 0, raised |-> TRUE, found |-> FALSE, out |-> <<Out("error", <<>>)>>]
    IN IF fault = "query" THEN failed
       ELSE IF existing # {}
       THEN [keys |-> ks, plain_text_key |-> None, key_prefix |-> Some(First(existing).prefix), inserts |-> 0, drawn |-> 0, raised |-> FALSE, found |-> TRUE, out |-> <<Out("info_existing", <<>>)>>]
       ELSE IF fault = "commit" THEN [failed EXCEPT !.drawn = 1]
       ELSE [keys |-> ks \cup {row}, plain_text_key |-> Some(plain), key_prefix |-> Some(row.prefix), inserts |-> 1, drawn |-> 1, raised |-> FALSE, found |-> FALSE, out |-> <<>>]

NotWritten == [written |-> FALSE, email |-> "", user_id |-> 0, prefix |-> <<>>, key |-> <<>>]

Written(email, user_id, prefix, key) == [written |-> TRUE, email |-> email, user_id |-> user_id, prefix |-> prefix, key |-> key]

\* save_credentials: the credentials file, then set_key on the .env file, each in its own try
save_credentials(plain_text_key, key_prefix, email, user_id, creds_file_path, dotenv_path, fs, before) ==
    LET content == Written(email, user_id, key_prefix, plain_text_key)
        credsOk == Makedirs(Dirname(creds_file_path), fs.creds)
        dotenvOk == Makedirs(Dirname(dotenv_path), fs.dotenv)
    IN [files |-> [creds |-> IF credsOk THEN content ELSE before.creds, dotenv |-> IF dotenvOk THEN content ELSE before.dotenv],
        out |-> <<Out(IF credsOk THEN "creds_written" ELSE "creds_warning", creds_file_path), Out(IF dotenvOk THEN "dotenv_updated" ELSE "dotenv_warning", dotenv_path)>>]

\* print_key_to_console
print_key_to_console(email, user_id, key_prefix, plain_key, creds_filepath, dotenv_filepath) ==
    <<Out("key_prefix", key_prefix), Out("plaintext", plain_key), Out("saved_at", creds_filepath), Out("saved_at", dotenv_filepath)>>

\* the names bound in run_bootstrap when the call of print_key_to_console is reached
RunBootstrapLocals == {"args", "SessionLocal", "db", "admin_user", "plain_text_key", "key_prefix"}

\* the names bound at module level
ModuleGlobals == {"argparse", "os", "sys", "datetime", "quote_plus", "find_dotenv", "load_dotenv", "set_key", "create_engine", "sqlalchemy_exc", "Session", "sessionmaker", "project_root", "UtilsInterface", "LoggingUtility", "ApiKey", "User", "DEFAULT_ADMIN_EMAIL", "DEFAULT_ADMIN_NAME", "DEFAULT_ADMIN_KEY_NAME", "DEFAULT_CREDENTIALS_FILENAME", "DEFAULT_DOTENV_FILENAME", "ENV_VAR_API_KEY_ADMIN", "ENV_VAR_API_KEY_ENTITIES", "ENV_VAR_DB_URL_INTERNAL", "ENV_VAR_DB_URL_EXTERNAL", "logging_utility", "identifier_service", "setup_database", "find_or_create_admin_user", "generate_and_save_key", "save_credentials", "print_key_to_console", "parse_arguments", "run_bootstrap", "args", "path", "target_dir"}

\* the names the call of print_key_to_console in run_bootstrap passes, attributes dropped
PrintCallArguments == <<"admin_user", "key_prefix", "plain_key", "args", "args">>

\* a name lookup: local scope, then module scope; NameError otherwise
Resolves(name) == name \in RunBootstrapLocals \cup ModuleGlobals

\* the value of a text local of run_bootstrap
ValueOf(name, loc) == IF name = "plain_text_key" THEN loc.plain_text_key.v ELSE IF name = "key_prefix" THEN loc.key_prefix.v ELSE <<>>

NoLocals == [admin_user |-> 0, plain_text_key |-> None, key_prefix |-> None]

\* what is recorded of a run: DB exceptions and connection failures (faulted), rows inserted,
\* whether an existing user was made admin (and committed), whether a key was committed or
\* found, the prefix reported, and the exit code (-1 while running)
NewRun == [faulted |-> FALSE, inserts |-> 0, promoted |-> FALSE, committed_key |-> FALSE, found_key |-> FALSE, reported |-> None, exit |-> -1]

Say(lines) == console \o [i \in DOMAIN lines |-> [run |-> runNo, kind |-> lines[i].kind, text |-> lines[i].text]]

\* run_bootstrap: setup_database, and sys.exit(1) when it gives no session factory
SetupDatabase ==
    /\ bpc = "setup"
    /\ \E reachable \in BOOLEAN :
        IF reachable
        THEN /\ bpc' = "user"
             /\ UNCHANGED <<console, history>>
        ELSE /\ bpc' = "done"
             /\ console' = Say(<<Out("connect_error", <<>>)>>)
             /\ history' = [history EXCEPT ![runNo].faulted = TRUE, ![runNo].exit = 1]
    /\ UNCHANGED <<bargs, runNo, users, keys, nextId, local, files>>
    /\ UNCHANGED sessions
    /\ UNCHANGED orchVars
    /\ UNCHANGED provVars

\* run_bootstrap, step 1; no user: the exception raised is caught by run_bootstrap's except
FindOrCreateAdminUser ==
    /\ bpc = "user"
    /\ \E fault \in {"none", "query", "commit", "refresh"} :
        LET r == find_or_create_admin_user(users, nextId, bargs.email, fault)
        IN /\ users' = r.users
           /\ nextId' = nextId + r.drawn
           /\ local' = [local EXCEPT !.admin_user = r.admin_user]
           /\ history' = [history EXCEPT ![runNo].faulted = @ \/ r.raised, ![runNo].inserts = @ + r.inserts, ![runNo].promoted = (r.inserts = 0 /\ r.users # users)]
           /\ console' = Say(r.out \o (IF r.admin_user = 0 THEN <<Out("critical", <<>>)>> ELSE <<>>))
           /\ bpc' = IF r.admin_user = 0 THEN "end" ELSE "key"
    /\ UNCHANGED <<bargs, runNo, keys, files>>
    /\ UNCHANGED sessions
    /\ UNCHANGED orchVars
    /\ UNCHANGED provVars

\* run_bootstrap, step 2, and the branch taken on its result
GenerateAndSaveKey ==
    /\ bpc = "key"
    /\ \E fault \in {"none", "query", "commit"} :
        LET r == generate_and_save_key(keys, local.admin_user, nextId, fault)
        IN /\ keys' = r.keys
           /\ nextId' = nextId + r.drawn
           /\ local' = [local EXCEPT !.plain_text_key = r.plain_text_key, !.key_prefix = r.key_prefix]
           /\ history' = [history EXCEPT ![runNo].faulted = @ \/ r.raised, ![runNo].inserts = @ + r.inserts, ![runNo].committed_key = r.inserts = 1, ![runNo].found_key = r.found]
           /\ console' = Say(r.out)
           /\ bpc' = IF Truthy(r.plain_text_key) /\ Truthy(r.key_prefix) THEN "save" ELSE IF Truthy(r.key_prefix) THEN "report" ELSE "end"
    /\ UNCHANGED <<bargs, runNo, users, files>>
    /\ UNCHANGED sessions
    /\ UNCHANGED orchVars
    /\ UNCHANGED provVars

\* run_bootstrap, step 3: save_credentials
SaveCredentials ==
    /\ bpc = "save"
    /\ \E fs \in [creds : BOOLEAN, dotenv : BOOLEAN] :
        LET r == save_credentials(local.plain_text_key.v, local.key_prefix.v, bargs.email, local.admin_user, bargs.creds_file, bargs.dotenv_path, fs, files)
        IN /\ files' = r.files
           /\ console' = Say(r.out)
    /\ bpc' = "print"
    /\ UNCHANGED <<bargs, runNo, users, keys, nextId, local, history>>
    /\ UNCHANGED sessions
    /\ UNCHANGED orchVars
    /\ UNCHANGED provVars

\* run_bootstrap, step 3: the call of print_key_to_console; a name that does not resolve
\* raises NameError before the call, which run_bootstrap's except reports
PrintKeyToConsole ==
    /\ bpc = "print"
    /\ console' = IF \A i \in DOMAIN PrintCallArguments : Resolves(PrintCallArguments[i])
                  THEN Say(print_key_to_console(bargs.email, local.admin_user, ValueOf(PrintCallArguments[2], local), ValueOf(PrintCallArguments[3], local), bargs.creds_file, bargs.dotenv_path))
                  ELSE Say(<<Out("critical", <<>>)>>)
    /\ bpc' = "end"
    /\ UNCHANGED <<bargs, runNo, users, keys, nextId, local, files, history>>
    /\ UNCHANGED sessions
    /\ UNCHANGED orchVars
    /\ UNCHANGED provVars

\* run_bootstrap, step 3: an existing key was found, its prefix is reported
ReportExisting ==
    /\ bpc = "report"
    /\ console' = Say(<<Out("existing_prefix", local.key_prefix.v)>>)
    /\ history' = [history EXCEPT ![runNo].reported = local.key_prefix]
    /\ bpc' = "end"
    /\ UNCHANGED <<bargs, runNo, users, keys, nextId, local, files>>
    /\ UNCHANGED sessions
    /\ UNCHANGED orchVars
    /\ UNCHANGED provVars

\* run_bootstrap returns (finally: the session is closed) and the script ends
EndRun ==
    /\ bpc = "end"
    /\ console' = Say(<<Out("finished", <<>>)>>)
    /\ history' = [history EXCEPT ![runNo].exit = 0]
    /\ bpc' = "done"
    /\ UNCHANGED <<bargs, runNo, users, keys, nextId, local, files>>
    /\ UNCHANGED sessions
    /\ UNCHANGED orchVars
    /\ UNCHANGED provVars

\* the operator runs the script again, with the same arguments
NextRun ==
    /\ bpc = "done"
    /\ runNo < MaxRuns
    /\ runNo' = runNo + 1
    /\ history' = Append(history, NewRun)
    /\ local' = NoLocals
    /\ bpc' = "setup"
    /\ UNCHANGED <<bargs, users, keys, nextId, files, console>>
    /\ UNCHANGED sessions
    /\ UNCHANGED orchVars
    /\ UNCHANGED provVars

\* ------------------- scripts/create_user.py, scripts/bootstrap_default_assistant.py

\* a bound of the model: the longest list of tool definitions
MaxTools == 2

\* neither script is run
ProvOff ==
    /\ pscript = "none"
    /\ pargs = [admin_key |-> FALSE, api_key |-> FALSE, user_id |-> FALSE, function_definitions |-> <<>>]
    /\ ppc = "done"
    /\ pexit = 0
    /\ prun = 0
    /\ api = [up |-> FALSE, fails |-> <<>>, users |-> 0, assistant |-> FALSE, tools |-> <<>>, assoc |-> {}]
    /\ calls = <<>>

\* a tool loop that goes on to the association when the creation failed
RECURSIVE tools_loop_associating_after_failed_create(_, _, _, _)
tools_loop_associating_after_failed_create(function_definitions, faults, up, st) ==
    IF function_definitions = <<>> THEN st
    ELSE LET tool_name == Head(function_definitions).name
             createOk == up /\ Head(faults) # "create"
             associateOk == up /\ Head(faults) # "associate"
             new_tool == [id |-> Len(st.tools) + 1, name |-> tool_name.v]
             created == [st EXCEPT !.calls = Append(@, [op |-> "create_tool", name |-> tool_name.v, ok |-> createOk, run |-> 0]),
                                   !.tools = IF createOk THEN Append(@, new_tool) ELSE @]
             associated == [created EXCEPT !.calls = Append(@, [op |-> "associate_tool_with_assistant", name |-> tool_name.v, ok |-> associateOk, run |-> 0]),
                                           !.assoc = IF associateOk THEN @ \cup {new_tool.id} ELSE @]
         IN IF ~Truthy(tool_name) THEN tools_loop_associating_after_failed_create(Tail(function_definitions), Tail(faults), up, st)
            ELSE tools_loop_associating_after_failed_create(Tail(function_definitions), Tail(faults), up, associated)

\* a tool loop that gives up at the first tool whose creation fails
RECURSIVE tools_loop_stopping_at_failure(_, _, _, _)
tools_loop_stopping_at_failure(function_definitions, faults, up, st) ==
    IF function_definitions = <<>> THEN st
    ELSE LET tool_name == Head(function_definitions).name
             createOk == up /\ Head(faults) # "create"
             associateOk == up /\ Head(faults) # "associate"
             new_tool == [id |-> Len(st.tools) + 1, name |-> tool_name.v]
             created == [st EXCEPT !.calls = Append(@, [op |-> "create_tool", name |-> tool_name.v, ok |-> createOk, run |-> 0]),
                                   !.tools = IF createOk THEN Append(@, new_tool) ELSE @]
             associated == [created EXCEPT !.calls = Append(@, [op |-> "associate_tool_with_assistant", name |-> tool_name.v, ok |-> associateOk, run |-> 0]),
                                           !.assoc = IF associateOk THEN @ \cup {new_tool.id} ELSE @]
         IN IF ~Truthy(tool_name) THEN tools_loop_stopping_at_failure(Tail(function_definitions), Tail(faults), up, st)
            ELSE IF ~createOk THEN created
            ELSE tools_loop_stopping_at_failure(Tail(function_definitions), Tail(faults), up, associated)

\* AssistantSetupService.create_and_associate_tools: the loop over the tool
\* definitions. st holds the server's tools and associations and the calls
\* issued; faults says, tool by tool, which call (if any) the API fails; with
\* the API down every call fails.
RECURSIVE create_and_associate_tools(_, _, _, _)
create_and_associate_tools(function_definitions, faults, up, st) ==
    IF function_definitions = <<>> THEN st
    ELSE LET tool_name == Head(function_definitions).name
             createOk == up /\ Head(faults) # "create"
             associateOk == up /\ Head(faults) # "associate"
             new_tool == [id |-> Len(st.tools) + 1, name |-> tool_name.v]
             created == [st EXCEPT !.calls = Append(@, [op |-> "create_tool", name |-> tool_name.v, ok |-> createOk, run |-> 0]),
                                   !.tools = IF createOk THEN Append(@, new_tool) ELSE @]
             associated == [created EXCEPT !.calls = Append(@, [op |-> "associate_tool_with_assistant", name |-> tool_name.v, ok |-> associateOk, run |-> 0]),
                                           !.assoc = IF associateOk THEN @ \cup {new_tool.id} ELSE @]
         IN IF ~Truthy(tool_name) THEN create_and_associate_tools(Tail(function_definitions), Tail(faults), up, st)
            ELSE IF ~createOk THEN create_and_associate_tools(Tail(function_definitions), Tail(faults), up, created)
            ELSE create_and_associate_tools(Tail(function_definitions), Tail(faults), up, associated)

\* create_user.py, main: the admin key is loaded (ValueError: exit 1), the client
\* built, create_user called and, if it gave a user, generate_user_key; both
\* catch every exception and return None, and main ends with "Script finished."
CreateUserMain ==
    /\ pscript = "create_user" /\ ppc = "start"
    /\ \E createFault \in BOOLEAN, keyFault \in BOOLEAN :
        LET created == api.up /\ ~createFault
            keyed == api.up /\ ~keyFault
            create_user == [op |-> "create_user", name |-> <<>>, ok |-> created, run |-> prun]
            create_key_for_user == [op |-> "create_key_for_user", name |-> <<>>, ok |-> keyed, run |-> prun]
        IN IF ~pargs.admin_key
           THEN pexit' = 1 /\ UNCHANGED <<api, calls>>
           ELSE /\ pexit' = 0
                /\ api' = IF created THEN [api EXCEPT !.users = @ + 1] ELSE api
                /\ calls' = calls \o (IF created THEN <<create_user, create_key_for_user>> ELSE <<create_user>>)
    /\ ppc' = "done"
    /\ UNCHANGED <<pscript, pargs, prun>>
    /\ UNCHANGED adminVars
    /\ UNCHANGED orchVars

\* bootstrap_default_assistant.py, __main__ up to the tool loop: the arguments
\* are checked (parser.error: exit 2), the client built (failure: exit 1), the
\* user retrieved (failure: a warning only), and setup_assistant_with_tools
\* retrieves the default assistant or creates it (failure: raised, exit 1).
\* The script can be run again once the process is over.
AssistantSetup ==
    /\ pscript = "assistant"
    /\ ppc = "start" \/ (ppc = "done" /\ prun < MaxRuns)
    /\ prun' = IF ppc = "done" THEN prun + 1 ELSE prun
    /\ \E fault \in [client : BOOLEAN, retrieve_assistant : BOOLEAN, create_assistant : BOOLEAN] :
        LET call(op, ok) == [op |-> op, name |-> <<>>, ok |-> ok, run |-> prun']
            userOk == api.up
            found == api.up /\ api.assistant /\ ~fault.retrieve_assistant
            made == api.up /\ ~fault.create_assistant
            lookups == <<call("retrieve_user", userOk), call("retrieve_assistant", found)>>
        IN IF ~pargs.api_key \/ ~pargs.user_id
           THEN ppc' = "done" /\ pexit' = 2 /\ UNCHANGED <<api, calls>>
           ELSE IF fault.client
           THEN ppc' = "done" /\ pexit' = 1 /\ UNCHANGED <<api, calls>>
           ELSE IF found
           THEN ppc' = "tools" /\ pexit' = -1 /\ calls' = calls \o lookups /\ UNCHANGED api
           ELSE /\ calls' = calls \o lookups \o <<call("create_assistant", made)>>
                /\ api' = IF made THEN [api EXCEPT !.assistant = TRUE] ELSE api
                /\ IF made THEN ppc' = "tools" /\ pexit' = -1 ELSE ppc' = "done" /\ pexit' = 1
    /\ UNCHANGED <<pscript, pargs>>
    /\ UNCHANGED adminVars
    /\ UNCHANGED orchVars

\* create_and_associate_tools returns, and with it setup_assistant_with_tools,
\* orchestrate_default_assistant and __main__: "Script finished."
CreateAndAssociateTools ==
    /\ pscript = "assistant" /\ ppc = "tools"
    /\ LET r == create_and_associate_tools(pargs.function_definitions, api.fails, api.up, [tools |-> api.tools, assoc |-> api.assoc, calls |-> <<>>])
       IN /\ api' = [api EXCEPT !.tools = r.tools, !.assoc = r.assoc]
          /\ calls' = calls \o [i \in DOMAIN r.calls |-> [r.calls[i] EXCEPT !.run = prun]]
    /\ ppc' = "done"
    /\ pexit' = 0
    /\ UNCHANGED <<pscript, pargs, prun>>
    /\ UNCHANGED adminVars
    /\ UNCHANGED orchVars

\* ------------------------------------------------------------ initial states

\* a bound of the model: the longest ports list of the db service
MaxPorts == 2

DefaultFlags == [mode |-> "up", services |-> <<>>, attached |-> FALSE, force_recreate |-> FALSE, down |-> FALSE, clear_volumes |-> FALSE, nuke |-> FALSE, with_ollama |-> FALSE, ollama_gpu |-> FALSE]

\* a key of the db service's environment: left out, or given with a value (None: a YAML null, or a bare name in list form)
Given(val) == [in |-> TRUE, val |-> val]

LeftOut == [in |-> FALSE, val |-> None]

ChoiceOf(c, name) == IF name = <<"M","Y","S","Q","L","_","R","O","O","T","_","P","A","S","S","W","O","R","D">> THEN c.root ELSE IF name = <<"M","Y","S","Q","L","_","D","A","T","A","B","A","S","E">> THEN c.database ELSE IF name = <<"M","Y","S","Q","L","_","U","S","E","R">> THEN c.user ELSE c.password

ComposeNames == <<<<"M","Y","S","Q","L","_","R","O","O","T","_","P","A","S","S","W","O","R","D">>, <<"M","Y","S","Q","L","_","D","A","T","A","B","A","S","E">>, <<"M","Y","S","Q","L","_","U","S","E","R">>, <<"M","Y","S","Q","L","_","P","A","S","S","W","O","R","D">>>>

EnvChoices == [root : {LeftOut, Given(Some(<<"r","0","0","t">>))}, database : {LeftOut, Given(Some(<<"a","p","p","_","d","b">>))}, user : {LeftOut, Given(Some(<<"b","o","b">>))}, password : {LeftOut, Given(Some(<<"p","@","s","s"," ","w","#","r","d">>)), Given(Some(<<>>)), Given(None)}]

\* environment: in mapping form
DictOf(c) == [n \in {ComposeNames[i] : i \in {j \in DOMAIN ComposeNames : ChoiceOf(c, ComposeNames[j]).in}} |-> ChoiceOf(c, n).val]

\* environment: in list form, "NAME=value" or "NAME"
RECURSIVE ListOf(_, _)
ListOf(c, names) ==
    IF names = <<>> THEN <<>>
    ELSE (IF ChoiceOf(c, Head(names)).in
          THEN <<IF ChoiceOf(c, Head(names)).val.some THEN Head(names) \o <<"=">> \o ChoiceOf(c, Head(names)).val.v ELSE Head(names)>>
          ELSE <<>>) \o ListOf(c, Tail(names))

TypicalPorts == <<<<"3","3","0","7",":","3","3","0","6">>>>

TypicalChoice == [root |-> Given(Some(<<"r","0","0","t">>)), database |-> Given(Some(<<"a","p","p","_","d","b">>)), user |-> Given(Some(<<"b","o","b">>)), password |-> Given(Some(<<"p","@","s","s"," ","w","#","r","d">>))]

DictDoc(c, ports) == [hasDb |-> TRUE, envForm |-> "dict", envDict |-> DictOf(c), envList |-> <<>>, ports |-> ports]

ListDoc(c, ports) == [hasDb |-> TRUE, envForm |-> "list", envDict |-> <<>>, envList |-> ListOf(c, ComposeNames), ports |-> ports]

TypicalDoc == DictDoc(TypicalChoice, TypicalPorts)

PortLists ==
    LET PortEntries == {<<"3","3","0","6">>, <<"3","3","0","7",":","3","3","0","6">>, <<"1","2","7",".","0",".","0",".","1",":","3","3","0","8",":","3","3","0","6">>, <<"8","0","8","0",":","8","0">>, <<"3","3","0","6",":","3","3","0","9">>, <<":","3","3","0","6">>}
    IN UNION {[1..n -> PortEntries] : n \in 0..MaxPorts}

Parsed(doc) == [state |-> "ok", doc |-> doc]

Missing == [state |-> "missing", doc |-> EmptyDoc]

Invalid == [state |-> "invalid", doc |-> EmptyDoc]

ComposeFiles ==
    {Missing, Invalid, Parsed(EmptyDoc), Parsed([TypicalDoc EXCEPT !.envForm = "none", !.envDict = <<>>])}
    \cup {Parsed(DictDoc(c, TypicalPorts)) : c \in EnvChoices}
    \cup {Parsed(ListDoc(c, TypicalPorts)) : c \in EnvChoices}
    \cup {Parsed(DictDoc(TypicalChoice, ports)) : ports \in PortLists}

EnvFiles == {Absent, File(<<>>), File(<<KeyLine("SECRET_KEY", <<"o","l","d">>)>>)}

\* a Linux machine with docker and a GPU, on which every file operation succeeds
LinuxHost == [os |-> "linux", docker |-> TRUE, smi |-> "ok", inContainer |-> FALSE, canMkdir |-> TRUE, canWrite |-> TRUE, rng |-> 1]

NoEnviron == [SHARED_PATH |-> None]

\* every flag combination of the orchestration script
InitFlags ==
    /\ script = "orch"
    /\ rawArgs \in [mode : {"up", "down_only"}, services : {<<>>, <<"api">>}, attached : BOOLEAN, force_recreate : BOOLEAN, down : BOOLEAN, clear_volumes : BOOLEAN, nuke : BOOLEAN, with_ollama : BOOLEAN, ollama_gpu : BOOLEAN]
    /\ host \in {[LinuxHost EXCEPT !.docker = d] : d \in BOOLEAN}
    /\ environ = NoEnviron
    /\ composeFile = Parsed(TypicalDoc)
    /\ envFile \in {Absent, File(<<KeyLine("SECRET_KEY", <<"o","l","d">>)>>)}

\* every compose file, for both scripts
InitCompose ==
    /\ script \in {"start", "orch"}
    /\ rawArgs = DefaultFlags
    /\ host \in {[LinuxHost EXCEPT !.rng = s] : s \in DOMAIN TokenPool}
    /\ environ = NoEnviron
    /\ composeFile \in ComposeFiles
    /\ envFile \in EnvFiles

\* every host, for both scripts
InitHost ==
    /\ script \in {"start", "orch"}
    /\ rawArgs \in {DefaultFlags, [DefaultFlags EXCEPT !.mode = "down_only"]}
    /\ host \in {[LinuxHost EXCEPT !.os = o, !.docker = d, !.canMkdir = m, !.canWrite = w] : o \in {"windows", "linux", "darwin", "freebsd"}, d \in BOOLEAN, m \in BOOLEAN, w \in BOOLEAN}
    /\ environ \in {NoEnviron, [SHARED_PATH |-> Some(<<"/","s","r","v","/","s","h","a","r","e">>)]}
    /\ composeFile \in {Missing, Invalid, Parsed(TypicalDoc)}
    /\ envFile \in EnvFiles

\* the sidecar step on every host
InitSidecar ==
    /\ script = "orch"
    /\ rawArgs \in {[DefaultFlags EXCEPT !.with_ollama = TRUE, !.ollama_gpu = g] : g \in BOOLEAN}
    /\ host \in {[LinuxHost EXCEPT !.os = o, !.docker = d, !.smi = s, !.inContainer = c] : o \in {"linux", "darwin"}, d \in BOOLEAN, s \in {"absent", "ok", "fail"}, c \in BOOLEAN}
    /\ environ = NoEnviron
    /\ composeFile = Parsed(TypicalDoc)
    /\ envFile = File(<<>>)

\* the admin bootstrap script is not run
AdminOff ==
    /\ bargs = [email |-> DEFAULT_ADMIN_EMAIL, creds_file |-> <<>>, dotenv_path |-> <<>>]
    /\ runNo = 0
    /\ bpc = "off"
    /\ users = {}
    /\ keys = {}
    /\ nextId = 1
    /\ local = NoLocals
    /\ files = [creds |-> NotWritten, dotenv |-> NotWritten]
    /\ console = <<>>
    /\ history = <<>>
    /\ sessions = <<>>

Init ==
    /\ (InitFlags \/ InitCompose \/ InitHost \/ InitSidecar)
    /\ args = rawArgs
    /\ pc = "parse"
    /\ exitCode = -1
    /\ compose_config = NoConfig
    /\ envAtStart = envFile
    /\ genCalls = 0
    /\ env_values = <<>>
    /\ dirs = {}
    /\ cmds = <<>>
    /\ typed = <<>>
    /\ handlers = <<>>
    /\ AdminOff
    /\ ProvOff

Next ==
    \/ ParseArgs
    \/ ConstructOrch
    \/ ConstructStart
    \/ EnsureOllama
    \/ HandleNuke
    \/ HandleDown
    \/ HandleUp
    \/ RunStart

vars == <<script, rawArgs, args, pc, exitCode, host, environ, composeFile, compose_config, envFile, envAtStart, genCalls, env_values, dirs, cmds, typed, handlers, bargs, runNo, bpc, users, keys, nextId, local, files, console, history, sessions, pscript, pargs, ppc, pexit, prun, api, calls>>

Spec == Init /\ [][Next]_vars

\* ---------------------------------------- the admin bootstrap, run after run

\* the orchestration scripts are not run
OrchOff ==
    /\ script = "none"
    /\ rawArgs = DefaultFlags
    /\ args = DefaultFlags
    /\ pc = "exit"
    /\ exitCode = 0
    /\ host = LinuxHost
    /\ environ = NoEnviron
    /\ composeFile = Missing
    /\ compose_config = NoConfig
    /\ envFile = Absent
    /\ envAtStart = Absent
    /\ genCalls = 0
    /\ env_values = <<>>
    /\ dirs = {}
    /\ cmds = <<>>
    /\ typed = <<>>
    /\ handlers = <<>>

\* the database before the first run: no user with the email, or one (admin or not), with or
\* without a key some earlier tooling gave the user
Databases ==
    {[users |-> {}, keys |-> {}]}
    \cup {[users |-> {UserRow(1, e, a)}, keys |-> ks] : e \in Emails, a \in BOOLEAN, ks \in {{}, {KeyRow(1, 1, <<"e","a","_","Z","k","3","L","m","N","0","p","Q">>)}}}

InitAdmin ==
    /\ OrchOff
    /\ ProvOff
    /\ bargs \in BootstrapArgs
    /\ runNo = 1
    /\ bpc = "setup"
    /\ \E d \in Databases : users = d.users /\ keys = d.keys
    /\ nextId = 2
    /\ local = NoLocals
    /\ files = [creds |-> NotWritten, dotenv |-> NotWritten]
    /\ console = <<>>
    /\ history = <<NewRun>>
    /\ sessions = <<>>

NextAdmin ==
    \/ SetupDatabase
    \/ FindOrCreateAdminUser
    \/ GenerateAndSaveKey
    \/ SaveCredentials
    \/ PrintKeyToConsole
    \/ ReportExisting
    \/ EndRun
    \/ NextRun

SpecAdmin == InitAdmin /\ [][NextAdmin]_vars


\* ------------------------------------------------- the writer, value by value

\* a bound of the model: the longest value handed to the writer
MaxValueLen == 3

\* the mapping holds one key with the value under test: any text up to MaxValueLen
\* characters over the characters the quoting rule looks at, and a plain one
InitWriter ==
    /\ script \in {"start", "orch"}
    /\ rawArgs = DefaultFlags
    /\ args = DefaultFlags
    /\ pc = "write"
    /\ exitCode = -1
    /\ host = LinuxHost
    /\ environ = NoEnviron
    /\ composeFile = Missing
    /\ compose_config = NoConfig
    /\ envFile = Absent
    /\ envAtStart = Absent
    /\ genCalls = 0
    /\ LET WriterAlphabet == {" ", "#", "\\", "\"", "=", "a"}
           WriterValues == UNION {[1..n -> WriterAlphabet] : n \in 0..MaxValueLen}
       IN env_values \in {("SHARED_PATH" :> value) : value \in WriterValues}
    /\ dirs = {}
    /\ cmds = <<>>
    /\ typed = <<>>
    /\ handlers = <<>>
    /\ AdminOff
    /\ ProvOff

\* step 6 of DockerOrchestrationManager._generate_dot_env_file
OrchWrite ==
    /\ pc = "write" /\ script = "orch"
    /\ envFile' = File(OrchRender(env_values))
    /\ pc' = "exit"
    /\ exitCode' = 0
    /\ UNCHANGED <<script, rawArgs, args, host, environ, composeFile, compose_config, envAtStart, genCalls, env_values, dirs, cmds, typed, handlers>>
    /\ UNCHANGED adminVars
    /\ UNCHANGED provVars

\* the writer of DockerManager._generate_dot_env_file
StartWrite ==
    /\ pc = "write" /\ script = "start"
    /\ envFile' = File(StartRender(env_values))
    /\ pc' = "exit"
    /\ exitCode' = 0
    /\ UNCHANGED <<script, rawArgs, args, host, environ, composeFile, compose_config, envAtStart, genCalls, env_values, dirs, cmds, typed, handlers>>
    /\ UNCHANGED adminVars
    /\ UNCHANGED provVars

NextWriter ==
    \/ OrchWrite
    \/ StartWrite

SpecWriter == InitWriter /\ [][NextWriter]_vars

\* ------------------------------------------------ the provisioning scripts

\* create_user.py with or without a loadable admin key, or the assistant
\* bootstrap with its arguments and a list of tool definitions (named, or with
\* the name missing), against an API that is reachable or not
InitProvision ==
    /\ OrchOff
    /\ AdminOff
    /\ LET Definitions == {[name |-> Some(<<"w","e","b","_","s","e","a","r","c","h">>)], [name |-> Some(<<"c","o","m","p","u","t","e","r">>)], [name |-> None]}
           DefinitionLists == UNION {[1..n -> Definitions] : n \in 0..MaxTools}
       IN \/ /\ pscript = "create_user"
             /\ pargs \in [admin_key : BOOLEAN, api_key : {FALSE}, user_id : {FALSE}, function_definitions : {<<>>}]
          \/ /\ pscript = "assistant"
             /\ pargs \in [admin_key : {FALSE}, api_key : {TRUE}, user_id : {TRUE}, function_definitions : DefinitionLists]
          \/ /\ pscript = "assistant"
             /\ pargs \in [admin_key : {FALSE}, api_key : BOOLEAN, user_id : BOOLEAN, function_definitions : {<<>>}]
    /\ ppc = "start"
    /\ pexit = -1
    /\ prun = 1
    /\ api \in [up : BOOLEAN, fails : [1..Len(pargs.function_definitions) -> {"none", "create", "associate"}],
                 users : {0}, assistant : BOOLEAN, tools : {<<>>}, assoc : {{}}]
    /\ calls = <<>>

NextProvision ==
    \/ CreateUserMain
    \/ AssistantSetup
    \/ CreateAndAssociateTools

SpecProvision == InitProvision /\ [][NextProvision]_vars

\* ---------------------------------------- two bootstrap runs at the same time

\* Two processes run bootstrap_admin.py with the same email against one database that
\* enforces no uniqueness. Each has its own SQLAlchemy session: a query reads the committed
\* rows at that moment, commit() writes what the session added or changed since.
InitRace ==
    /\ OrchOff
    /\ ProvOff
    /\ bargs \in BootstrapArgs
    /\ runNo = 1
    /\ bpc = "off"
    /\ \E d \in Databases : users = d.users /\ keys = d.keys
    /\ nextId = 2
    /\ local = NoLocals
    /\ files = [creds |-> NotWritten, dotenv |-> NotWritten]
    /\ console = <<>>
    /\ history = <<>>
    /\ sessions = [p \in {"first", "second"} |-> [pc |-> "user_query", seen_users |-> {}, admin_user |-> 0, seen_keys |-> {}]]

\* find_or_create_admin_user: db.query(User).filter(User.email == admin_email).first()
SessionQueryUser(p) ==
    /\ sessions[p].pc = "user_query"
    /\ sessions' = [sessions EXCEPT ![p].pc = "user_commit", ![p].seen_users = {u \in users : u.email = bargs.email}]
    /\ UNCHANGED <<bargs, runNo, bpc, users, keys, nextId, local, files, console, history>>
    /\ UNCHANGED orchVars
    /\ UNCHANGED provVars

\* a commit that looks at the table again before it inserts
SessionCommitUserRechecking(p) ==
    /\ sessions[p].pc = "user_commit"
    /\ LET r == find_or_create_admin_user(users, nextId, bargs.email, "none")
       IN /\ users' = r.users
          /\ nextId' = nextId + r.drawn
          /\ sessions' = [sessions EXCEPT ![p].pc = "key_query", ![p].admin_user = r.admin_user]
    /\ UNCHANGED <<bargs, runNo, bpc, keys, local, files, console, history>>
    /\ UNCHANGED orchVars
    /\ UNCHANGED provVars

\* find_or_create_admin_user after its query: the branch is taken on what the query returned;
\* db.add / is_admin = True and db.commit() write the session's row, whatever other
\* sessions have committed since
SessionCommitUser(p) ==
    /\ sessions[p].pc = "user_commit"
    /\ LET seen == sessions[p].seen_users
           r == find_or_create_admin_user(seen, nextId, bargs.email, "none")
       IN /\ users' = (users \ (seen \ r.users)) \cup (r.users \ seen)
          /\ nextId' = nextId + r.drawn
          /\ sessions' = [sessions EXCEPT ![p].pc = "key_query", ![p].admin_user = r.admin_user]
    /\ UNCHANGED <<bargs, runNo, bpc, keys, local, files, console, history>>
    /\ UNCHANGED orchVars
    /\ UNCHANGED provVars

\* generate_and_save_key: db.query(ApiKey).filter(ApiKey.user_id == admin_user.id).first()
SessionQueryKey(p) ==
    /\ sessions[p].pc = "key_query"
    /\ sessions' = [sessions EXCEPT ![p].pc = "key_commit", ![p].seen_keys = {k \in keys : k.user_id = sessions[p].admin_user}]
    /\ UNCHANGED <<bargs, runNo, bpc, users, keys, nextId, local, files, console, history>>
    /\ UNCHANGED orchVars
    /\ UNCHANGED provVars

\* generate_and_save_key after its query: nothing is written when the query found a key,
\* else db.add(new_api_key) and db.commit()
SessionCommitKey(p) ==
    /\ sessions[p].pc = "key_commit"
    /\ LET seen == sessions[p].seen_keys
           r == generate_and_save_key(seen, sessions[p].admin_user, nextId, "none")
       IN /\ keys' = keys \cup (r.keys \ seen)
          /\ nextId' = nextId + r.drawn
          /\ sessions' = [sessions EXCEPT ![p].pc = "done"]
    /\ UNCHANGED <<bargs, runNo, bpc, users, local, files, console, history>>
    /\ UNCHANGED orchVars
    /\ UNCHANGED provVars

NextRace ==
    \E p \in {"first", "second"} :
        \/ SessionQueryUser(p)
        \/ SessionCommitUser(p)
        \/ SessionQueryKey(p)
        \/ SessionCommitKey(p)

SpecRace == InitRace /\ [][NextRace]_vars
\* ------------------------------------------------------------- properties

Finished(r) == r < runNo \/ bpc = "done"

FaultFree(r) == ~history[r].faulted

AdminRows == {u \in users : u.email = bargs.email}

KeysOf(us) == {k \in keys : \E u \in us : k.user_id = u.id}

\* C1: when the script is run twice in sequence with the same email against the
\* same database and neither run meets a database error, then after the second
\* run there is exactly one User row with that email and at most one ApiKey row
\* for that user, and the second run inserted no row and reported the prefix of
\* the key the database holds.
BootstrapIdempotent ==
    \A r \in 2..Len(history) :
        (Finished(r) /\ FaultFree(r - 1) /\ FaultFree(r)) =>
            /\ history[r].inserts = 0
            /\ history[r].reported.some
            /\ \E k \in KeysOf(AdminRows) : history[r].reported.v = k.prefix
            /\ Cardinality(AdminRows) = 1
            /\ Cardinality(KeysOf(AdminRows)) <= 1

\* the first run created the user and the key, the second run has finished without a database error
BootstrapTwiceOnFreshDatabase ==
    /\ runNo = 2 /\ bpc = "done"
    /\ FaultFree(1) /\ FaultFree(2)
    /\ history[1].inserts = 2
    /\ history[2].reported.some

\* C2: for both managers, if the .env file exists when the script starts, the
\* generator is never called and the file is the same at every point of the run,
\* for every flag combination and every compose file.
ExistingEnvFileUntouched == envAtStart.exists => (genCalls = 0 /\ envFile = envAtStart)

\* a run over an existing .env file that has gone through a handler and ended
ExistingEnvFileRunEnded == envAtStart.exists /\ pc = "exit" /\ handlers # <<>> /\ cmds # <<>>

NukeRead(inp) == \E i \in DOMAIN typed : typed[i] = Read(inp, "nuke")

\* C3: when the orchestration script is given --nuke, with any other flags, and
\* the confirmation prompt reads end of input, the exit code is 1 and no docker
\* command has been issued at any point of the run.
NukeEofNoDocker ==
    (script = "orch" /\ rawArgs.nuke /\ NukeRead(Eof)) =>
        (exitCode = 1 /\ \A i \in DOMAIN cmds : ~IsDocker(cmds[i]))

\* --nuke with --with-ollama and --clear-volumes, and the prompt read end of input
NukeEofWithOtherFlags == rawArgs.nuke /\ rawArgs.with_ollama /\ rawArgs.clear_volumes /\ host.docker /\ NukeRead(Eof) /\ pc = "exit"

\* C4: docker system prune is issued only if --nuke was given and the line typed
\* was exactly "confirm nuke"; on any other input the nuke handler issues no
\* docker command.
PruneOnlyOnExactConfirmation ==
    /\ (\E i \in DOMAIN cmds : IsPrune(cmds[i])) => (rawArgs.nuke /\ NukeRead(Line(<<"c","o","n","f","i","r","m"," ","n","u","k","e">>)))
    /\ (\E i \in DOMAIN typed : typed[i].by = "nuke" /\ typed[i].inp # Line(<<"c","o","n","f","i","r","m"," ","n","u","k","e">>)) =>
            \A i \in DOMAIN cmds : cmds[i].by = "nuke" => ~IsDocker(cmds[i])

\* the prune was issued
PruneIssued == \E i \in DOMAIN cmds : IsPrune(cmds[i]) /\ cmds[i].by = "nuke"

DownRead(t) == t.by = "down"

Refused(t) == t.inp.kind = "text" /\ Strip(Lower(t.inp.text)) # <<"y","e","s">>

DownCommands == {i \in DOMAIN cmds : cmds[i].by = "down" /\ IsComposeDown(cmds[i])}

\* C5, as the specification words it: when --clear-volumes is given and the
\* confirmation is refused or the prompt reads end of input, the down handler
\* issues no docker compose down command.
RefusalIssuesNoDown ==
    \A i \in DOMAIN typed :
        (DownRead(typed[i]) /\ (Refused(typed[i]) \/ typed[i].inp = Eof)) => DownCommands = {}

\* C5, amended: when --clear-volumes is given and the confirmation is refused, the
\* down handler still issues docker compose down, but without --volumes; when the
\* prompt reads end of input it issues no docker compose down and the exit code is 1.
RefusalStopsWithoutVolumes ==
    \A i \in DOMAIN typed :
        /\ (DownRead(typed[i]) /\ Refused(typed[i])) =>
                (DownCommands # {} /\ \A j \in DownCommands : ~HasArg(cmds[j], "--volumes"))
        /\ (DownRead(typed[i]) /\ typed[i].inp = Eof) => (DownCommands = {} /\ exitCode = 1)

\* the answer was "no" and the down handler has issued its command
RefusedAndStopped == (\E i \in DOMAIN typed : typed[i] = Read(Line(<<"n","o">>), "down")) /\ DownCommands # {}

\* C6: when --nuke is given, whatever flags accompany it, the run never enters
\* the sidecar step, the up handler or the down handler; only the nuke handler
\* runs, and the process has exited when it is over.
NukeExclusive ==
    (script = "orch" /\ rawArgs.nuke) =>
        /\ pc \in {"parse", "init", "nuke", "exit"}
        /\ \A i \in DOMAIN handlers : handlers[i] = "nuke"
        /\ \A i \in DOMAIN cmds : cmds[i].by = "nuke"
        /\ handlers # <<>> => (pc = "exit" /\ exitCode # -1)

\* --nuke given with every other flag, confirmed, and over
NukeWithEveryFlag ==
    /\ rawArgs.nuke /\ rawArgs.with_ollama /\ rawArgs.ollama_gpu /\ rawArgs.clear_volumes /\ rawArgs.down
    /\ rawArgs.mode = "down_only" /\ rawArgs.attached /\ rawArgs.force_recreate /\ rawArgs.services # <<>>
    /\ handlers = <<"nuke">> /\ PruneIssued

Shown(r) == Cardinality({i \in DOMAIN console : console[i].run = r /\ console[i].kind = "plaintext"})

\* C7: in every run that generates and commits a new key the plaintext is shown
\* on the console exactly once; in a run that finds an existing key it is never
\* shown.
PlaintextShownOnce ==
    \A r \in DOMAIN history :
        Finished(r) =>
            /\ history[r].committed_key => Shown(r) = 1
            /\ history[r].found_key => Shown(r) = 0

\* C8: whenever the synthesis finds a host port for the database service,
\* SPECIAL_DB_URL is DATABASE_URL with only host:port replaced by
\* localhost:<host_port>; scheme, user, encoded password and database name are
\* the same in both, for both scripts.
SpecialUrlDiffersInHostPortOnly ==
    ("SPECIAL_DB_URL" \in DOMAIN env_values) =>
        LET e == env_values
            before == Scheme \o e["MYSQL_USER"] \o <<":">> \o quote_plus(e["MYSQL_PASSWORD"]) \o <<"@">>
            after == <<"/">> \o e["MYSQL_DATABASE"]
            host_port == IF script = "orch"
                         THEN Orch_get_host_port_from_compose_service(compose_config, DEFAULT_DB_SERVICE_NAME, DEFAULT_DB_CONTAINER_PORT)
                         ELSE Start_get_host_port_from_compose_service(compose_config, DEFAULT_DB_SERVICE_NAME, DEFAULT_DB_CONTAINER_PORT)
        IN /\ e["DATABASE_URL"] = before \o e["MYSQL_HOST"] \o <<":">> \o e["MYSQL_PORT"] \o after
           /\ e["SPECIAL_DB_URL"] = before \o Localhost \o <<":">> \o host_port.v \o after

ContainerPorts == {<<"3","3","0","6">>, <<"8","0">>, <<"3","3","0","9">>}

Segments(entry) == Split(entry, ":")

Matching(ports, container_port) == {i \in DOMAIN ports : Len(Segments(ports[i])) >= 2 /\ Segments(ports[i])[Len(Segments(ports[i]))] = container_port}

\* the host segment of the first entry that has one and whose last segment is the container port
ExpectedHostPort(ports, container_port) ==
    IF Matching(ports, container_port) = {} THEN None
    ELSE LET i == CHOOSE m \in Matching(ports, container_port) : \A o \in Matching(ports, container_port) : m <= o
         IN Some(Segments(ports[i])[Len(Segments(ports[i])) - 1])

\* C9: for every ports list with entries of the forms "container",
\* "host:container" and "ip:host:container", both implementations return the host
\* segment of the first entry whose last segment is the container port, and None
\* when no entry with a host segment matches; a bare "container" entry gives no
\* host port.
HostPortExtraction ==
    (compose_config.loaded /\ compose_config.doc.hasDb) =>
        \A cp \in ContainerPorts :
            /\ Orch_get_host_port_from_compose_service(compose_config, DEFAULT_DB_SERVICE_NAME, cp) = ExpectedHostPort(compose_config.doc.ports, cp)
            /\ Start_get_host_port_from_compose_service(compose_config, DEFAULT_DB_SERVICE_NAME, cp) = ExpectedHostPort(compose_config.doc.ports, cp)

\* a bare entry, then an entry with an address: the host port is the middle segment
HostPortBehindAddress ==
    /\ compose_config.loaded
    /\ compose_config.doc.ports = <<<<"3","3","0","6">>, <<"1","2","7",".","0",".","0",".","1",":","3","3","0","8",":","3","3","0","6">>>>
    /\ Orch_get_host_port_from_compose_service(compose_config, DEFAULT_DB_SERVICE_NAME, DEFAULT_DB_CONTAINER_PORT) = Some(<<"3","3","0","8">>)

\* C10: for every key that the db service's environment in the compose file
\* defines, the synthesized mapping holds the compose value: no default and no
\* generated secret overrides it, in both scripts.
ComposeValuesWin ==
    (genCalls > 0 /\ compose_config.loaded) =>
        \A k \in DOMAIN Orch_COMPOSE_ENV_MAPPING :
            LET given == Orch_get_env_from_compose_service(compose_config, DEFAULT_DB_SERVICE_NAME, Orch_COMPOSE_ENV_MAPPING[k])
            IN given.some => (k \in DOMAIN env_values /\ env_values[k] = given.v)


\* the keys of the KEY=value lines of a file
WrittenKeys(file) == {file.lines[i].k : i \in DOMAIN file.lines} \ {"#"}

\* C11: whatever the compose file holds (missing, unparseable, without a db
\* environment), a generated .env contains DATABASE_URL and a value for each of
\* MYSQL_USER, MYSQL_PASSWORD, MYSQL_DATABASE, MYSQL_HOST and MYSQL_PORT.
SynthesisComplete ==
    (genCalls > 0 /\ envFile.exists /\ envFile # envAtStart)
        => {"DATABASE_URL", "MYSQL_USER", "MYSQL_PASSWORD", "MYSQL_DATABASE", "MYSQL_HOST", "MYSQL_PORT"} \subseteq WrittenKeys(envFile)

\* the lines of a file that set a key
LinesOf(file, key) == {i \in DOMAIN file.lines : file.lines[i].k = key}

\* C12: the writer emits every key of the merged mapping exactly once (under
\* its section, or under "Other" when no section names it); no key of the
\* mapping is dropped, in start.py and in start_orchestration.py.
WriterKeepsEveryKey ==
    (genCalls > 0 /\ envFile.exists /\ envFile # envAtStart)
        => \A key \in DOMAIN env_values : Cardinality(LinesOf(envFile, key)) = 1

\* a dotenv reader's unescaping, left to right: \\ gives \ and \" gives "
RECURSIVE Unescape(_)
Unescape(s) ==
    IF s = <<>> THEN <<>>
    ELSE IF Len(s) >= 2 /\ s[1] = "\\" /\ s[2] \in {"\\", "\""} THEN <<s[2]>> \o Unescape(From(s, 3))
    ELSE <<s[1]>> \o Unescape(Tail(s))

\* a dotenv reader on the right-hand side of a line: surrounding double quotes
\* are stripped and the inside unescaped; an unquoted value is taken as it is
DotenvRead(rhs) ==
    IF Len(rhs) >= 2 /\ rhs[1] = "\"" /\ rhs[Len(rhs)] = "\"" THEN Unescape(SubSeq(rhs, 2, Len(rhs) - 1))
    ELSE rhs

\* C13: for every value that contains a space or '#', the line the writer
\* emits for it, read back by a dotenv reader, gives the original string.
QuotingRoundTrip ==
    \A key \in DOMAIN env_values : \A i \in LinesOf(envFile, key) :
        (HasChar(env_values[key], " ") \/ HasChar(env_values[key], "#"))
            => DotenvRead(envFile.lines[i].v) = env_values[key]

\* the mapping a second synthesis gives over the same compose document and the
\* same process environment, when the secrets module draws under another seed
SecondRun(seed) ==
    IF script = "orch" THEN OrchEnvValues(compose_config, Draws(seed))
    ELSE StartEnvValues(compose_config, environ.SHARED_PATH, Draws(seed))

\* the keys a script fills from the secrets module
GeneratedBy(s) == IF s = "orch" THEN Orch_GENERATED_SECRETS \cup Orch_GENERATED_TOOL_IDS ELSE Start_GENERATED_SECRETS

\* the keys one of which it builds from a generated value
DerivedFromGenerated(s) == IF s = "orch" THEN {} ELSE {"DATABASE_URL", "SPECIAL_DB_URL"}

\* two mappings agree outside a set of keys
AgreeOutside(a, b, apart) == DOMAIN a = DOMAIN b /\ \A key \in DOMAIN a \ apart : a[key] = b[key]

\* C14 as stated: two synthesis runs over the same compose document and
\* environment agree on every key except the generated secrets and tool
\* identifiers, DATABASE_URL and SPECIAL_DB_URL included.
SynthesisDeterministic ==
    genCalls > 0 => \A seed \in DOMAIN TokenPool : AgreeOutside(env_values, SecondRun(seed), GeneratedBy(script))

\* C14 amended: the two runs agree on every key except the generated secrets
\* and tool identifiers and, in start.py, the two database URLs, which embed
\* the generated MYSQL_PASSWORD; in start_orchestration.py the URLs agree too.
SynthesisDeterministicButDerived ==
    genCalls > 0 => \A seed \in DOMAIN TokenPool :
        AgreeOutside(env_values, SecondRun(seed), GeneratedBy(script) \cup DerivedFromGenerated(script))

\* an orchestration synthesis that built DATABASE_URL, and a second run whose secrets differ
OrchUrlsAgreeSecretsDiffer ==
    /\ script = "orch" /\ genCalls > 0
    /\ "DATABASE_URL" \in DOMAIN env_values
    /\ \E seed \in DOMAIN TokenPool : SecondRun(seed)["SECRET_KEY"] # env_values["SECRET_KEY"]

\* C15: when SHARED_PATH is set in the process environment before the manager
\* is constructed, its value is unchanged afterwards and no other directory is
\* created; a platform default is exported only when it was unset. For both
\* DockerManager and DockerOrchestrationManager.
ExistingSharedPathKept ==
    [][(pc = "init" /\ Truthy(environ.SHARED_PATH))
        => (environ'.SHARED_PATH = environ.SHARED_PATH /\ dirs' \subseteq {environ.SHARED_PATH.v})]_vars

\* C16: the shared-path configuration ends the process only on an unrecognized
\* OS with no path available: on windows, linux and darwin it never exits, and
\* on another OS it does not exit when SHARED_PATH is already set. (The file
\* system lets the script create directories and write .env, so that no other
\* step of the construction ends the process.)
SharedPathExitsOnlyWithoutPath ==
    [][(pc = "init" /\ host.canMkdir /\ host.canWrite /\ pc' = "exit" /\ exitCode' # 0)
        => (host.os \notin {"windows", "linux", "darwin"} /\ ~Truthy(environ.SHARED_PATH))]_vars

IsComposeUp(c) == HasPrefix(c, <<"docker", "compose", "up">>)

\* a docker compose up of the up handler, or down of the down handler, that exited non-zero
FailedUp(i) == cmds[i].by = "up" /\ IsComposeUp(cmds[i]) /\ cmds[i].rc = "fail"

FailedDown(i) == cmds[i].by = "down" /\ IsComposeDown(cmds[i]) /\ cmds[i].rc = "fail"

\* C17 as stated: in the orchestration script a non-zero exit of the docker
\* compose command of the up or down handler ends the process with a non-zero
\* code and no further stack command follows it (the log dump after a failed
\* up apart): a failed down is not followed by docker compose up.
FailedComposeAborts ==
    script = "orch" => \A i \in DOMAIN cmds : (FailedUp(i) \/ FailedDown(i)) =>
        /\ pc = "exit" /\ exitCode > 0
        /\ \A j \in (i + 1)..Len(cmds) : ~IsComposeUp(cmds[j])

\* C17 amended: a failed docker compose up ends the process with code 1, with
\* only the log dump after it; a failed docker compose down is logged and the
\* run goes on: with mode down_only the process ends with code 0, with mode up
\* docker compose up follows.
FailedUpAbortsFailedDownGoesOn ==
    script = "orch" => \A i \in DOMAIN cmds :
        /\ FailedUp(i) =>
            /\ pc = "exit" /\ exitCode = 1
            /\ Len(cmds) = i + 1 /\ HasPrefix(cmds[i + 1], <<"docker", "compose", "logs">>)
        /\ (FailedDown(i) /\ pc = "exit") =>
            IF args.mode = "down_only" THEN exitCode = 0
            ELSE \E j \in (i + 1)..Len(cmds) : cmds[j].by = "up" /\ IsComposeUp(cmds[j])

\* a failed down, then a failed up, its log dump, and the process over
DownFailedThenUpFailed ==
    /\ script = "orch" /\ pc = "exit"
    /\ \E i \in DOMAIN cmds : FailedDown(i) /\ \E j \in (i + 1)..Len(cmds) : FailedUp(j)

\* C18: in a provisioning script, when the remote API (or the database) is
\* unreachable so that the script's first call fails, the error is caught and
\* the process ends with a non-zero exit code.
UnreachableExitsNonZero ==
    (pscript # "none" /\ ~api.up /\ calls # <<>> /\ ~calls[1].ok /\ ppc = "done") => pexit > 0

\* a create_tool call that gave a tool
Created(i) == calls[i].op = "create_tool" /\ calls[i].ok

\* C19: a tool is created only if it is missing: when create_and_associate_tools
\* runs twice against the same API with the same definitions, the second run
\* issues no create_tool call for a name the first run created.
CreatesOnlyMissingTools ==
    \A i \in DOMAIN calls : \A j \in DOMAIN calls :
        (Created(i) /\ calls[j].op = "create_tool" /\ calls[j].run > calls[i].run) => calls[j].name # calls[i].name

\* the names of the create_tool calls of a sequence of calls, in order
CreateAttempts(cs) ==
    LET isCreate(c) == c.op = "create_tool"
        creates == SelectSeq(cs, isCreate)
    IN [i \in DOMAIN creates |-> creates[i].name]

\* the names of the definitions that have one, in order
NamedDefinitions(function_definitions) ==
    LET named(d) == Truthy(d.name)
        kept == SelectSeq(function_definitions, named)
    IN [i \in DOMAIN kept |-> kept[i].name.v]

\* C20: in create_and_associate_tools a failure of create_tool or of
\* associate_tool_with_assistant for one tool never aborts the loop: every named
\* definition gets exactly one create attempt, in order, whichever earlier
\* tools failed, and the function returns normally (the script ends with 0).
ToolLoopNeverAborts ==
    [][ppc = "tools" =>
        /\ CreateAttempts(SubSeq(calls', Len(calls) + 1, Len(calls'))) = NamedDefinitions(pargs.function_definitions)
        /\ ppc' = "done" /\ pexit' = 0]_vars

\* a run in which one tool's creation failed, another's association failed
\* after it, and the script ended normally
LaterToolAttemptedAfterFailure ==
    /\ ppc = "done" /\ pexit = 0
    /\ \E i \in DOMAIN calls : \E j \in DOMAIN calls :
        /\ i < j /\ calls[i].run = calls[j].run
        /\ calls[i].op = "create_tool" /\ ~calls[i].ok
        /\ calls[j].op = "associate_tool_with_assistant" /\ ~calls[j].ok /\ api.up

\* the key step of a run ended in its except: nothing returned, the run goes to its end
KeyStepFailed == bpc = "key" /\ bpc' = "end"

\* the user row step 1 returned, as the table holds it after the step
AdminAfter == {u \in users' : u.id = local.admin_user /\ u.email = bargs.email /\ u.is_admin}

\* C21 as stated: when key generation or its commit fails after the admin user
\* was created or promoted and committed in the run, the User row (is_admin
\* true) is still present afterwards and no ApiKey row for that user exists.
KeyFailureLeavesUserAndNoKey ==
    [][(KeyStepFailed /\ (history[runNo].inserts = 1 \/ history[runNo].promoted))
        => (AdminAfter # {} /\ {k \in keys' : k.user_id = local.admin_user} = {})]_vars

\* C21 amended: the failed key step leaves both tables as they were: the User
\* row (is_admin true) is still present and no ApiKey row was added; a user
\* created in the run has no ApiKey row, a promoted one keeps the rows it had.
KeyFailureUndoesNothing ==
    [][(KeyStepFailed /\ (history[runNo].inserts = 1 \/ history[runNo].promoted))
        => /\ AdminAfter # {}
           /\ users' = users /\ keys' = keys
           /\ history[runNo].inserts = 1 => {k \in keys' : k.user_id = local.admin_user} = {}]_vars

\* a run that created the admin user, failed in the key step, and is over
UserCreatedKeyFailed ==
    /\ bpc = "done"
    /\ history[runNo].inserts = 1 /\ ~history[runNo].committed_key /\ history[runNo].faulted /\ history[runNo].exit = 0
    /\ \E u \in users : u.email = bargs.email /\ u.is_admin /\ u.id = local.admin_user

\* the User rows with the email the runs were given
RowsForEmail == {u \in users : u.email = bargs.email}

\* C22: two bootstrap runs with the same email at the same time are not guarded
\* against each other: a run whose existence check found no user inserts its
\* User row at its commit and a run whose check found no key inserts its ApiKey
\* row, whatever the other run has committed in between; so both can pass the
\* check before either commits and leave two User rows for the email or two
\* ApiKey rows for the admin user.
RaceUnguarded ==
    [][\A p \in DOMAIN sessions :
        /\ (sessions[p].pc = "user_commit" /\ sessions'[p].pc = "key_query" /\ sessions[p].seen_users = {})
            => Cardinality(users') = Cardinality(users) + 1
        /\ (sessions[p].pc = "key_commit" /\ sessions'[p].pc = "done" /\ sessions[p].seen_keys = {})
            => Cardinality(keys') = Cardinality(keys) + 1]_vars

\* both runs are over and the table holds two User rows for the email
TwoUserRowsForEmail ==
    /\ \A p \in DOMAIN sessions : sessions[p].pc = "done"
    /\ DOMAIN sessions # {}
    /\ Cardinality(RowsForEmail) = 2

\* both runs are over and one admin user holds two ApiKey rows
TwoKeyRowsForAdmin ==
    /\ \A p \in DOMAIN sessions : sessions[p].pc = "done"
    /\ \E u \in RowsForEmail : Cardinality({k \in keys : k.user_id = u.id}) = 2

IsPull(c) == HasPrefix(c, <<"docker", "pull">>)

IsRun(c) == HasPrefix(c, <<"docker", "run">>)

\* the commands the sidecar step of this run issued, in order
SidecarCmds == SelectSeq(cmds, LAMBDA c : c.by = "ollama")

\* C23: with --with-ollama, when the Ollama container is already running the
\* sidecar step issues neither docker pull nor docker run and reports success;
\* when it is not running, docker run is issued only after the image is present
\* locally or a pull succeeded, and a failed pull means no docker run.
SidecarStartsInOrder ==
    /\ \A in \in [running1 : BOOLEAN, present : BOOLEAN, pull : {"ok", "fail"}, run : {"ok", "fail"}, running2 : BOOLEAN], cpu_only \in BOOLEAN :
        LET r == Orch_start_ollama(cpu_only, host.smi, in)
            runs == {i \in DOMAIN r.cmds : IsRun(r.cmds[i])}
            pulls == {i \in DOMAIN r.cmds : IsPull(r.cmds[i])}
        IN /\ in.running1 => (r.ok /\ runs = {} /\ pulls = {})
           /\ \A i \in runs : in.present \/ \E j \in pulls : j < i /\ r.cmds[j].rc = "ok"
           /\ (\E j \in pulls : r.cmds[j].rc # "ok") => runs = {}
           /\ in.present => pulls = {}
    /\ \A i \in DOMAIN SidecarCmds :
        /\ IsRun(SidecarCmds[i]) => \A j \in 1..(i - 1) : IsPull(SidecarCmds[j]) => SidecarCmds[j].rc = "ok"
        /\ IsPull(SidecarCmds[i]) => \A j \in 1..(i - 1) : ~IsRun(SidecarCmds[j])

\* the sidecar step pulled the image and then started the container
PulledThenRan ==
    /\ \E i, j \in DOMAIN SidecarCmds : i < j /\ IsPull(SidecarCmds[i]) /\ SidecarCmds[i].rc = "ok" /\ IsRun(SidecarCmds[j])
    /\ pc = "exit"

\* C24: the sidecar step is non-fatal. Whatever it did (docker missing, a
\* failed pull, a failed run, a container not running after the wait), the run
\* goes on to the handler it would enter without --with-ollama, with the same
\* arguments, environment and files, and the step sets no exit code.
SidecarNeverFatal ==
    [][pc = "ollama"
        => /\ pc' = RunEntry([args EXCEPT !.with_ollama = FALSE])
           /\ pc' # "exit"
           /\ exitCode' = exitCode
           /\ <<args, host, environ, composeFile, compose_config, envFile, env_values, dirs, typed>>' = <<args, host, environ, composeFile, compose_config, envFile, env_values, dirs, typed>>
           /\ \A i \in DOMAIN cmds' : i > Len(cmds) => cmds'[i].by = "ollama"]_vars

\* the sidecar step failed (a failed pull or run, or docker logs after the
\* container did not come up), the stack was started and the run ended with 0
SidecarFailedStackStarted ==
    /\ pc = "exit" /\ exitCode = 0
    /\ handlers = <<"ollama", "up">>
    /\ \E i \in DOMAIN SidecarCmds : (SidecarCmds[i].rc = "fail" /\ (IsPull(SidecarCmds[i]) \/ IsRun(SidecarCmds[i]))) \/ HasPrefix(SidecarCmds[i], <<"docker", "logs">>)

\* the orchestration run is over, was given --down with the default mode and
\* no cleanup flag, and got as far as its handlers
DownGivenWithModeUp ==
    /\ script = "orch" /\ pc = "exit"
    /\ rawArgs.down /\ rawArgs.mode = "up" /\ ~rawArgs.nuke /\ ~rawArgs.clear_volumes
    /\ handlers # <<>>

\* the down handler ran and the up handler after it, each issuing its command
RanDownThenUp ==
    /\ \E i \in DOMAIN handlers : handlers[i] = "down" /\ i + 1 \in DOMAIN handlers /\ handlers[i + 1] = "up"
    /\ \E i, j \in DOMAIN cmds : i < j /\ IsComposeDown(cmds[i]) /\ IsComposeUp(cmds[j])

\* C25: --down with the default mode 'up' runs docker compose down and then
\* docker compose up in the same run, for every combination of --attached and
\* --force-recreate.
DownFlagRunsDownThenUp == DownGivenWithModeUp => RanDownThenUp

\* the same for the runs that were also given --attached or --force-recreate
DownFlagWithUpOptionRunsDownThenUp ==
    (DownGivenWithModeUp /\ (rawArgs.attached \/ rawArgs.force_recreate)) => RanDownThenUp

\* the commands outside the nuke path that remove volumes
VolumeRemovals == {i \in DOMAIN cmds : cmds[i].by # "nuke" /\ HasArg(cmds[i], "--volumes")}

\* the down handler's prompt was answered yes
AnsweredYes == \E i \in DOMAIN typed : DownRead(typed[i]) /\ typed[i].inp.kind = "text" /\ Strip(Lower(typed[i].inp.text)) = <<"y","e","s">>

\* C26: outside the nuke path docker compose down carries --volumes only if
\* --clear-volumes was given and the prompt of that run was answered yes; after
\* a refusal the flag is cleared and no command of the run removes volumes.
VolumesOnlyAfterYes ==
    /\ \A i \in VolumeRemovals :
        /\ IsComposeDown(cmds[i]) /\ cmds[i].by = "down"
        /\ rawArgs.clear_volumes /\ AnsweredYes
    /\ (\E i \in DOMAIN typed : DownRead(typed[i]) /\ Refused(typed[i]))
        => (~args.clear_volumes /\ VolumeRemovals = {})

\* the prompt was answered yes and docker compose down --volumes was issued
VolumesRemovedAfterYes ==
    /\ AnsweredYes
    /\ \E i \in VolumeRemovals : IsComposeDown(cmds[i])
    /\ \E j \in DOMAIN handlers : handlers[j] = "down"

\* the commands the nuke handler issued, in order
NukeCmds == SelectSeq(cmds, LAMBDA c : c.by = "nuke")

\* the nuke prompt read exactly the confirmation
NukeConfirmed == \E i \in DOMAIN typed : typed[i] = Read(Line(<<"c","o","n","f","i","r","m"," ","n","u","k","e">>), "nuke")

\* C27: after a confirmed --nuke, docker compose down --volumes --remove-orphans
\* is issued first and docker system prune -a --volumes --force second; the
\* prune is issued whatever the outcome of the compose down; a failed prune ends
\* the process with exit code 1, a successful one with exit code 0.
NukeDownThenPrune ==
    NukeConfirmed
        => /\ Len(NukeCmds) = 2
           /\ NukeCmds[1].argv = <<"docker", "compose", "down", "--volumes", "--remove-orphans">>
           /\ NukeCmds[2].argv = <<"docker", "system", "prune", "-a", "--volumes", "--force">>
           /\ pc = "exit"
           /\ exitCode = IF NukeCmds[2].rc = "ok" THEN 0 ELSE 1

\* a confirmed nuke whose compose down failed and whose prune succeeded
NukeDownFailedPruneDone ==
    /\ NukeConfirmed
    /\ Len(NukeCmds) = 2 /\ NukeCmds[1].rc = "fail" /\ NukeCmds[2].rc = "ok"
    /\ exitCode = 0

\* how often the run issued a command that starts with the given words
Issued(words) == Cardinality({i \in DOMAIN cmds : HasPrefix(cmds[i], words)})

\* C28: there are no retries. In a run each state-changing docker command
\* (docker pull, docker run, docker compose down, docker compose up, docker
\* system prune) is issued at most once, so none is issued again after it failed.
NoRetries ==
    /\ Issued(<<"docker", "pull">>) <= 1
    /\ Issued(<<"docker", "run">>) <= 1
    /\ Issued(<<"docker", "compose", "down">>) <= 1
    /\ Issued(<<"docker", "compose", "up">>) <= 1
    /\ Issued(<<"docker", "system", "prune">>) <= 1

\* the run is over; its docker pull failed and later its docker compose up failed
PullFailedUpFailed ==
    /\ pc = "exit" /\ exitCode = 1
    /\ \E i, j \in DOMAIN cmds : i < j /\ IsPull(cmds[i]) /\ cmds[i].rc = "fail" /\ FailedUp(j)

\* what save_credentials wrote holds the plaintext of a stored key
FileHoldsKey(f) == f.written /\ \E k \in keys : k.hashed_key = HashKey(f.key)

\* C29: the plaintext admin key is never lost. In every run that commits a new
\* ApiKey row the plaintext has, by the end of the run, been delivered through at
\* least one channel: the credentials file, the .env file or the console.
PlaintextNeverLost ==
    \A r \in DOMAIN history :
        (Finished(r) /\ history[r].committed_key)
            => (FileHoldsKey(files.creds) \/ FileHoldsKey(files.dotenv) \/ Shown(r) >= 1)

IsAssociate(c) == c.op = "associate_tool_with_assistant"

\* among the first k calls, those of run r that satisfy the test
CountUpTo(k, r, Test(_)) == Cardinality({i \in 1..k : calls[i].run = r /\ Test(calls[i])})

\* C30: in create_and_associate_tools association is attempted only for a tool
\* whose create_tool call succeeded in the same run: every association call
\* directly follows the successful creation of the same tool, a failed creation
\* is never followed by an association of that tool, the associated tools are
\* among the created ones, and at every point of the loop the associated count
\* does not exceed the created count.
AssociatesOnlyCreatedTools ==
    /\ \A j \in DOMAIN calls :
        IsAssociate(calls[j])
            => /\ j > 1 /\ Created(j - 1)
               /\ calls[j - 1].name = calls[j].name /\ calls[j - 1].run = calls[j].run
    /\ \A i \in DOMAIN calls :
        (calls[i].op = "create_tool" /\ ~calls[i].ok /\ i + 1 \in DOMAIN calls) => ~IsAssociate(calls[i + 1])
    /\ api.assoc \subseteq {api.tools[n].id : n \in DOMAIN api.tools}
    /\ \A k \in DOMAIN calls : \A r \in 1..prun :
        CountUpTo(k, r, LAMBDA c : IsAssociate(c) /\ c.ok) <= CountUpTo(k, r, LAMBDA c : c.op = "create_tool" /\ c.ok)

\* a run over a reachable API in which one tool's creation failed and was not
\* followed by an association, and another tool was created and associated
FailedCreationSkippedAssociation ==
    /\ ppc = "done" /\ api.up
    /\ \E i \in DOMAIN calls : \E j \in DOMAIN calls :
        /\ calls[i].run = calls[j].run
        /\ calls[i].op = "create_tool" /\ ~calls[i].ok
        /\ IsAssociate(calls[j]) /\ calls[j].ok
====
